---- MODULE Spec2Model ----
(***************************************************************************)
(* A model of the page-constructor-builder build pipeline:                 *)
(* PageBuilder.build (the orchestrator), WebpackBuilder.build (the dual     *)
(* target bundler adapter), SSRRenderer (server bundle loading and         *)
(* rendering), TemplateRenderer.render (the document assembler) and the    *)
(* post-build removal of the server bundle.                                *)
(*                                                                         *)
(* One PageBuilder instance lives in one process.  Every invocation of     *)
(* build() owns a call frame (call[s]); the fields of WebpackBuilder and   *)
(* SSRRenderer, the module cache of the process and the file system are    *)
(* shared by all invocations.  Every await of the source is a step.        *)
(* File names are records [stem, ext], paths records [dir, stem, ext], so  *)
(* that basename, extname and endsWith are computed, not assumed.          *)
(* Text (error messages) is a sequence of tokens.                          *)
(*                                                                         *)
(* Environment assumptions: fs.pathExists never fails, fs.remove of an     *)
(* existing temporary entry file succeeds, and a bundler run that reports  *)
(* errors emits no file.                                                   *)
(***************************************************************************)
EXTENDS Integers, Sequences, FiniteSets, TLC

\* ------------------------------------------------------------------ bounds
\* Number of build() invocations on the PageBuilder instance (first build
\* plus rebuilds).
MaxBuilds == 2
\* Largest number of page files one discovery returns.
MaxPages == 2
\* The longest text of a page or configuration value that is enumerated.
MaxLen == 2

\* ------------------------------------------------------------ data: paths
Name(stem, ext) == [stem |-> stem, ext |-> ext]
Path(dir, name) == [dir |-> dir, stem |-> name.stem, ext |-> name.ext]

\* path.basename(p): the directory is dropped.
basename(p) == Name(p.stem, p.ext)
\* name.endsWith(ext) for an extension.
endsWith(name, ext) == name.ext = ext

OutputDir == "out"
PackageRoot == "pkg"
AssetsDir == "assets"

TempClientEntry == Path(PackageRoot, Name("temp-client-entry", ".tsx"))
TempServerEntry == Path(PackageRoot, Name("temp-server-entry", ".tsx"))

ServerJs == Name("server", ".js")
ServerJsMap == Name("server.js", ".map")
ClientJs == Name("client", ".js")
StylesCss == Name("styles", ".css")
ChunkCss == Name("1", ".css")
ClientJsMap == Name("client.js", ".map")
LogoSvg == Name("logo", ".svg")

\* path.resolve(this.config.output, name)
resolveOutput(name) == Path(OutputDir, name)

\* ------------------------------------------------------------ data: pages
\* A page description file found under the input directory: the directory
\* relative to the input directory, the base name and the extension.
PageFile(rel, base, ext) == [rel |-> rel, base |-> base, ext |-> ext]
NoPage == PageFile("", "", "")
HomeYaml == PageFile("", "home", ".yaml")
BrokenYaml == PageFile("", "broken", ".yaml")
SubHomeYml == PageFile("sub", "home", ".yml")

\* The files the input directory can hold, in enumeration order.
AllPages == <<BrokenYaml, HomeYaml, SubHomeYml>>

RECURSIVE SubSeqs(_)
\* All subsequences of a sequence (order kept).
SubSeqs(q) ==
    IF q = <<>> THEN {<<>>}
    ELSE LET rest == SubSeqs(Tail(q))
         IN rest \cup {<<Head(q)>> \o r : r \in rest}

\* What the recursive enumeration of the input directory can return.
PageLists == {q \in SubSeqs(AllPages) : Len(q) <= MaxPages}

\* ----------------------------------------------------------- data: config
\* A favicon value: how it starts ("" for a relative path, "none" when no
\* favicon is configured), its directory part, its file name, and the text
\* that follows the file name (the query of a URL).
Favicon(prefix, dir, stem, ext, query) ==
    [prefix |-> prefix, dir |-> dir, stem |-> stem, ext |-> ext, query |-> query]
NoFavicon == Favicon("none", "", "", "", <<>>)
UrlFavicon == Favicon("https://", "cdn.example.com", "icon", ".png", <<>>)
LocalFavicon == Favicon("", "", "logo", ".svg", <<>>)

\* The Build Configurations the instance is constructed with.
Configs ==
    { [assets |-> TRUE, favicon |-> LocalFavicon, navigation |-> TRUE,
       components |-> TRUE, watch |-> TRUE, theme |-> <<>>, baseUrl |-> <<>>],
      [assets |-> FALSE, favicon |-> UrlFavicon, navigation |-> FALSE,
       components |-> FALSE, watch |-> FALSE, theme |-> <<>>, baseUrl |-> <<>>],
      [assets |-> FALSE, favicon |-> NoFavicon, navigation |-> FALSE,
       components |-> FALSE, watch |-> FALSE, theme |-> <<>>, baseUrl |-> <<>>] }

\* ------------------------------------------------------- data: file system
\* The content of a file: its kind, for a server bundle the build that
\* produced it, for an HTML document the content of the root container and
\* the page file it was assembled from.
FileOf(kind) == [kind |-> kind, ver |-> 0, root |-> "", src |-> NoPage]
BundleFile(ver) == [kind |-> "bundle", ver |-> ver, root |-> "", src |-> NoPage]
HtmlFile(root, src) == [kind |-> "html", ver |-> 0, root |-> root, src |-> src]

\* fs.writeFile / a bundler emit / fs.copy of one file.
writeFile(f, p, content) ==
    [q \in (DOMAIN f) \cup {p} |-> IF q = p THEN content ELSE f[q]]
RECURSIVE writeFiles(_, _, _)
writeFiles(f, ps, content) ==
    IF ps = <<>> THEN f
    ELSE writeFiles(writeFile(f, Head(ps), content), Tail(ps), content)
\* fs.remove / fs.unlink of one file.
removeFile(f, p) == [q \in (DOMAIN f) \ {p} |-> f[q]]
\* fs.pathExists
pathExists(f, p) == p \in DOMAIN f

Range(q) == {q[i] : i \in 1..Len(q)}

VARIABLES
    config,              \* the Build Configuration of the instance
    fs,                  \* the files of the package root and the output directory
    generatedAssets,     \* WebpackBuilder.generatedAssets
    serverBundleAssets,  \* WebpackBuilder.serverBundleAssets
    serverModule,        \* SSRRenderer.serverModule (0 is null), by producing build
    requireCache,        \* require.cache[server bundle path] (0 is no entry)
    call,                \* the frames of the build() invocations
    buildSeq,            \* number of build() invocations started
    lastOutcome,         \* how the previous invocation ended
    process,             \* the process of the build command
    browser,             \* a browser that has loaded a written page
    navFile              \* the content of the navigation file, by revision

vars == <<config, fs, generatedAssets, serverBundleAssets, serverModule,
          requireCache, call, buildSeq, lastOutcome,
                   process, browser, navFile>>

\* Frames available to invocations of build(); a returned frame is reused.
Slots == {1, 2}

\* A parsed page description: the document YAML.parse returned ("null" for an
\* empty file) and whether the content transformer has expanded it.
\* The meta block of a page: every value a text, the empty text when absent.
Meta(title, description, sharing, keywords) ==
    [title |-> title, description |-> description, sharing |-> sharing,
     keywords |-> keywords]
Sharing(title, description, image) ==
    [title |-> title, description |-> description, image |-> image]
NoMeta == Meta(<<>>, <<>>, Sharing(<<>>, <<>>, <<>>), <<>>)

PageConfig(doc, transformed) ==
    [doc |-> doc, transformed |-> transformed, meta |-> NoMeta,
     css |-> <<>>, js |-> <<>>]
NoPageConfig == PageConfig("none", FALSE)
NoHtml == [kind |-> "none", ver |-> 0, root |-> "", src |-> NoPage]

\* ---------------------------------------------------------- Build Result
EmptyResult == [pagesBuilt |-> 0, buildTime |-> 0, errors |-> <<>>, warnings |-> <<>>]

IdleCall ==
    [ pc |-> "idle", id |-> 0, result |-> EmptyResult, rejected |-> FALSE,
      yamlFiles |-> <<>>, idx |-> 0, generatedCSSFiles |-> <<>>,
      pageConfig |-> NoPageConfig, html |-> NoHtml,
      pending |-> <<>>, serverAssets |-> <<>>, k |-> 0,
      \* what the bundler reported to the running WebpackBuilder.build
      clientStats |-> "none", serverStats |-> "none", compileErrors |-> <<>>,
      \* history of this invocation
      trace |-> <<>>, written |-> {}, unlinkFailed |-> {},
      discovery |-> "none", ssrThrew |-> {}, usedModule |-> {},
      bundleAbsent |-> {}, rewritten |-> {},
      \* what copyFavicon found: "skipped" (no file to copy), "missing", "found"
      faviconSource |-> "none",
      \* what copyStaticAssets found: "missing" (no directory), "found"
      assetsSource |-> "none",
      \* stats.compilation.assets of this invocation's resolved runs
      clientEmitted |-> <<>>, serverEmitted |-> <<>>,
      \* buildPage's navigation (0 is undefined), and the navigation data
      \* the renders of this invocation were given
      navigation |-> 0, navUsed |-> {},
      \* the page in hand, when the transformer failed on its content
      untransformed |-> NoPage,
      \* the changed path the watch handler was called with
      changed |-> "none" ]

Event(ev, page) == [ev |-> ev, page |-> page]
\* The invocation has executed step ev (for page file page).
Log(c, ev, page) == [c EXCEPT !.trace = Append(@, Event(ev, page))]
Count(c, ev) == Cardinality({i \in 1..Len(c.trace) : c.trace[i].ev = ev})
CountFor(c, ev, page) ==
    Cardinality({i \in 1..Len(c.trace) : c.trace[i] = Event(ev, page)})
Did(c, ev) == Count(c, ev) > 0

\* Date.now() - startTime: the steps taken since the invocation started.
Elapsed(c) == Len(c.trace)

Running(c) == c.pc \notin {"idle", "done"}

\* An entry of the error list: `${kind}: ${msg}`, or `${kind} ${file}: ${msg}`.
ErrorEntry(kind, file, msg) == [kind |-> kind, file |-> file, msg |-> msg]

\* -------------------------------------------------- PageBuilder.build: exits
\* A build() without its catch: the failure reaches the caller.
BuildCatchRethrows(c, msg) == [c EXCEPT !.rejected = TRUE, !.pc = "done"]

\* The catch of build(): one top-level error, the elapsed time, the result.
BuildCatch(c, msg) ==
    [c EXCEPT !.result.errors = Append(@, ErrorEntry("Build failed", NoPage, msg)),
              !.result.buildTime = Elapsed(c),
              !.pc = "done"]

\* The normal end of build(): the elapsed time, the result.
Return(c) == [c EXCEPT !.result.buildTime = Elapsed(c), !.pc = "done"]

\* How an invocation ended, as the caller sees it.
Outcome(c) ==
    IF c.pc # "done" THEN "none"
    ELSE IF c.rejected THEN "rejected"
    ELSE IF c.result.errors = <<>> THEN "ok"
    ELSE IF c.result.errors[1].kind = "Build failed" THEN "failed"
    ELSE "pageErrors"

\* The process of the build command: where the command's action is, what it
\* has printed, whether its catch ran, and the exit code once it has ended.
ProcessAt(pc) ==
    [pc |-> pc, errors |-> <<>>, warnings |-> <<>>, caught |-> FALSE, exitCode |-> -1]

\* No page is loaded.
NoBrowser ==
    [pc |-> "none", root |-> "", registered |-> FALSE, timer |-> FALSE,
     calls |-> 0, thrown |-> "none", uncaught |-> FALSE]

NoBuildRunning == \A t \in Slots : ~Running(call[t])

Init ==
    /\ config \in Configs
    /\ fs = <<>>
    /\ generatedAssets = <<>>
    /\ serverBundleAssets = <<>>
    /\ serverModule = 0
    /\ requireCache = 0
    /\ call = [s \in Slots |-> IdleCall]
    /\ buildSeq = 0
    /\ lastOutcome = "none"
    /\ process = ProcessAt("build")
    /\ browser = NoBrowser
    /\ navFile = 1

\* ------------------------------------------------ PageBuilder.build: steps
\* The start of build(): a fresh Build Result in a fresh frame.
EnterFor(s, filePath) ==
    /\ buildSeq' = buildSeq + 1
    /\ lastOutcome' = Outcome(call[s])
    /\ call' = [call EXCEPT ![s] =
                  [IdleCall EXCEPT !.pc = "ensureDir", !.id = buildSeq + 1,
                                   !.changed = filePath]]
    /\ UNCHANGED <<config, fs, generatedAssets, serverBundleAssets,
                   serverModule, requireCache, process, browser, navFile>>

Enter(s) == EnterFor(s, "none")

\* The CLI's build command calls build() once.
build(s) ==
    /\ buildSeq = 0
    /\ s = 1
    /\ Enter(s)

\* A watcher that is closed by a failed build.
WatcherUntilFailure(cfg) == cfg.watch /\ Outcome(call[1]) # "failed"

\* watch(): if (!this.config.watch) return; else the watcher is created
\* and the change handler installed.
WatcherInstalled(cfg) == cfg.watch

\* const watchPaths = [...]: the page files of the input directory, and the
\* components directory, the assets directory and the navigation file when
\* configured.
watchPaths(cfg) ==
    {"input"}
    \cup (IF cfg.components THEN {"components"} ELSE {})
    \cup (IF cfg.assets THEN {"assets"} ELSE {})
    \cup (IF cfg.navigation THEN {"navigation"} ELSE {})

\* watcher.on('change', ...): the handler calls build() for the changed
\* path, here once the previous invocation has returned.
handler(s, filePath) ==
    /\ WatcherInstalled(config)
    /\ filePath \in watchPaths(config)
    /\ buildSeq >= 1
    /\ buildSeq < MaxBuilds
    /\ NoBuildRunning
    /\ s = 1
    /\ EnterFor(s, filePath)

\* Watch mode: a page file of the input directory changes.
rebuild(s) == handler(s, "input")

\* Watch mode: a file under any watched path changes.
change(s) == \E filePath \in watchPaths(config) : handler(s, filePath)

\* await fs.ensureDir(this.config.output)
ensureDir(s) ==
    /\ call[s].pc = "ensureDir"
    /\ \E ok \in BOOLEAN :
         LET c == Log(call[s], "ensureDir", NoPage)
         IN call' = [call EXCEPT ![s] =
                IF ok
                THEN [c EXCEPT !.pc = IF config.assets THEN "copyStaticAssets"
                                      ELSE "copyFavicon"]
                ELSE BuildCatch(c, <<"EACCES", "mkdir">>)]
    /\ UNCHANGED <<config, fs, generatedAssets, serverBundleAssets,
                   serverModule, requireCache, buildSeq, lastOutcome,
                   process, browser, navFile>>

\* await this.copyStaticAssets(): a missing assets directory is a console
\* warning only; a failing copy throws.
copyStaticAssets(s) ==
    /\ call[s].pc = "copyStaticAssets"
    /\ \E outcome \in {"missing", "copied", "failed"} :
         LET c == [Log(call[s], "copyStaticAssets", NoPage) EXCEPT
                      !.assetsSource = IF outcome = "missing" THEN "missing"
                                       ELSE "found"]
         IN /\ call' = [call EXCEPT ![s] =
                  IF outcome = "failed"
                  THEN BuildCatch(c, <<"EIO", "copy">>)
                  ELSE [c EXCEPT !.pc = "copyFavicon"]]
            /\ fs' = IF outcome = "copied"
                     THEN writeFile(fs, Path("out/assets", LogoSvg), FileOf("asset"))
                     ELSE fs
    /\ UNCHANGED <<config, generatedAssets, serverBundleAssets,
                   serverModule, requireCache, buildSeq, lastOutcome,
                   process, browser, navFile>>

\* A URL test that knows https only.
isUrlHttpsOnly(fav) == fav.prefix = "https://"

\* faviconPath.startsWith('http://') || faviconPath.startsWith('https://')
isUrl(fav) == fav.prefix \in {"http://", "https://"}
isAbsolute(fav) == fav.prefix = "/"

\* A favicon that must exist: the missing file ends the build.
FaviconNotFoundThrows(c) == BuildCatch(c, <<"Favicon file not found">>)

\* console.warn(`Favicon file not found: ${faviconPath}`); return;
FaviconNotFound(c) == [c EXCEPT !.pc = "findYamlFiles"]

\* await this.copyFavicon(): nothing for no favicon or a URL; a local file
\* is looked up in the assets directory, then relative to the project root;
\* a file that is not found is a console warning only; a failing copy throws.
copyFavicon(s) ==
    /\ call[s].pc = "copyFavicon"
    /\ \E where \in {"assets", "root", "missing"}, ok \in BOOLEAN :
         LET fav == config.favicon
             skip == fav.prefix = "none" \/ isUrl(fav)
             found == isAbsolute(fav) \/ (where = "assets" /\ config.assets) \/ where = "root"
             outputPath == Path("out/assets", basename(fav))
             c == [Log(call[s], "copyFavicon", NoPage) EXCEPT
                      !.faviconSource = IF skip THEN "skipped"
                                        ELSE IF found THEN "found" ELSE "missing"]
         IN /\ call' = [call EXCEPT ![s] =
                  IF skip \/ (found /\ ok)
                  THEN [c EXCEPT !.pc = "findYamlFiles"]
                  ELSE IF ~found THEN FaviconNotFound(c)
                  ELSE BuildCatch(c, <<"EIO", "copy">>)]
            /\ fs' = IF ~skip /\ found /\ ok
                     THEN writeFile(fs, outputPath, FileOf("asset"))
                     ELSE fs
    /\ UNCHANGED <<config, generatedAssets, serverBundleAssets,
                   serverModule, requireCache, buildSeq, lastOutcome,
                   process, browser, navFile>>

\* An empty discovery that warns and carries on.
NoPagesContinue(c) ==
    [c EXCEPT !.result.warnings =
                 Append(@, <<"No YAML files found in input directory">>),
              !.pc = "loadComponents"]

\* if (yamlFiles.length === 0): one warning, and the result as it is.
NoPagesReturn(c) ==
    [c EXCEPT !.result.warnings =
                 Append(@, <<"No YAML files found in input directory">>),
              !.pc = "done"]

\* const yamlFiles = await this.findYamlFiles(), and the early return.
findYamlFiles(s) ==
    /\ call[s].pc = "findYamlFiles"
    /\ \E ok \in BOOLEAN, found \in PageLists :
         LET c == Log(call[s], "findYamlFiles", NoPage)
         IN call' = [call EXCEPT ![s] =
                IF ~ok THEN BuildCatch([c EXCEPT !.discovery = "threw"],
                                       <<"EACCES", "glob">>)
                ELSE IF Len(found) = 0
                THEN NoPagesReturn([c EXCEPT !.discovery = "empty"])
                ELSE [c EXCEPT !.discovery = "pages", !.yamlFiles = found,
                               !.pc = "loadComponents"]]
    /\ UNCHANGED <<config, fs, generatedAssets, serverBundleAssets,
                   serverModule, requireCache, buildSeq, lastOutcome,
                   process, browser, navFile>>

\* const componentManifest = await this.loadComponents(): reading a
\* component file can throw; without a components directory nothing is read.
loadComponents(s) ==
    /\ call[s].pc = "loadComponents"
    /\ \E ok \in BOOLEAN :
         LET c == Log(call[s], "loadComponents", NoPage)
         IN call' = [call EXCEPT ![s] =
                IF ok \/ ~config.components
                THEN [c EXCEPT !.pc = "createClientEntry"]
                ELSE BuildCatch(c, <<"EACCES", "readFile">>)]
    /\ UNCHANGED <<config, fs, generatedAssets, serverBundleAssets,
                   serverModule, requireCache, buildSeq, lastOutcome,
                   process, browser, navFile>>

\* ---------------------------------------------------- WebpackBuilder.build
\* What the bundler can report and emit (the bundler itself is opaque).
CompileErrorLists == {<<"e1">>, <<"e1", "e2">>}
ClientOutputs == {<<ClientJs, StylesCss, ClientJsMap, ChunkCss>>}
ServerOutputs == {<<ServerJs>>, <<ServerJs, ServerJsMap>>}
RunOutcomes == {"fatal", "errors", "warnings", "ok"}

\* A rejection that reports the first compilation error only.
CompilationErrorFirstOnly(errs) == <<"Webpack compilation errors:", errs[1]>>

\* The rejection of runWebpack on compilation errors: every message, joined.
CompilationErrorMessage(errs) == <<"Webpack compilation errors:">> \o errs

\* A tracker that appends to the list instead of replacing it.
TrackGeneratedAssetsAppending(assetNames) ==
    generatedAssets \o SelectSeq(assetNames, LAMBDA n : endsWith(n, ".css"))

\* this.generatedAssets = assetNames.filter((name) => name.endsWith('.css'))
TrackGeneratedAssets(assetNames) ==
    SelectSeq(assetNames, LAMBDA n : endsWith(n, ".css"))

\* this.serverBundleAssets = assetNames.map((name) => path.resolve(output, name))
TrackServerBundleAssets(assetNames) ==
    [i \in 1..Len(assetNames) |-> resolveOutput(assetNames[i])]

\* The message runWebpack rejects with (<<>> when it resolves).
runWebpackRejection(outcome, errs) ==
    CASE outcome = "fatal" -> <<"webpack: fatal error">>
      [] outcome = "errors" -> CompilationErrorMessage(errs)
      [] OTHER -> <<>>

\* build() is entered and createClientEntry writes the client entry file;
\* a failing write propagates out of build(), past its try.
createClientEntry(s) ==
    /\ call[s].pc = "createClientEntry"
    /\ \E ok \in BOOLEAN :
         LET c == Log(Log(call[s], "webpackBuilder.build", NoPage),
                      "createClientEntry", NoPage)
         IN /\ call' = [call EXCEPT ![s] =
                  IF ok THEN [c EXCEPT !.pc = "createServerEntry"]
                  ELSE BuildCatch(c, <<"ENOSPC", "writeFile">>)]
            /\ fs' = IF ok THEN writeFile(fs, TempClientEntry, FileOf("entry")) ELSE fs
    /\ UNCHANGED <<config, generatedAssets, serverBundleAssets,
                   serverModule, requireCache, buildSeq, lastOutcome,
                   process, browser, navFile>>

\* createServerEntry writes the server entry file; a failing write
\* propagates out of build(), past its try.
createServerEntry(s) ==
    /\ call[s].pc = "createServerEntry"
    /\ \E ok \in BOOLEAN :
         LET c == Log(call[s], "createServerEntry", NoPage)
         IN /\ call' = [call EXCEPT ![s] =
                  IF ok THEN [c EXCEPT !.pc = "runWebpackClient"]
                  ELSE BuildCatch(c, <<"ENOSPC", "writeFile">>)]
            /\ fs' = IF ok THEN writeFile(fs, TempServerEntry, FileOf("entry")) ELSE fs
    /\ UNCHANGED <<config, generatedAssets, serverBundleAssets,
                   serverModule, requireCache, buildSeq, lastOutcome,
                   process, browser, navFile>>

\* await this.runWebpack(clientConfig), target 'web'.
runWebpackClient(s) ==
    /\ call[s].pc = "runWebpackClient"
    /\ \E outcome \in RunOutcomes, errs \in CompileErrorLists, out \in ClientOutputs :
         LET c == Log(call[s], "runWebpackClient", NoPage)
             rejection == runWebpackRejection(outcome, errs)
             resolved == rejection = <<>>
         IN /\ call' = [call EXCEPT ![s] =
                  [c EXCEPT !.clientStats = outcome,
                            !.clientEmitted = IF resolved THEN out ELSE @,
                            !.compileErrors = IF outcome = "errors" THEN errs ELSE <<>>,
                            !.pending = rejection,
                            !.pc = IF resolved THEN "runWebpackServer" ELSE "buildFinally"]]
            /\ generatedAssets' = IF resolved THEN TrackGeneratedAssets(out)
                                  ELSE generatedAssets
            /\ fs' = IF resolved
                     THEN writeFiles(fs, [i \in 1..Len(out) |-> resolveOutput(out[i])],
                                     FileOf("client"))
                     ELSE fs
    /\ UNCHANGED <<config, serverBundleAssets, serverModule, requireCache,
                   buildSeq, lastOutcome,
                   process, browser, navFile>>

\* await this.runWebpack(serverConfig), target 'node'.
runWebpackServer(s) ==
    /\ call[s].pc = "runWebpackServer"
    /\ \E outcome \in RunOutcomes, errs \in CompileErrorLists, out \in ServerOutputs :
         LET c == Log(call[s], "runWebpackServer", NoPage)
             rejection == runWebpackRejection(outcome, errs)
             resolved == rejection = <<>>
         IN /\ call' = [call EXCEPT ![s] =
                  [c EXCEPT !.serverStats = outcome,
                            !.serverEmitted = IF resolved THEN out ELSE @,
                            !.compileErrors = IF outcome = "errors" THEN errs ELSE <<>>,
                            !.pending = rejection,
                            !.pc = "buildFinally"]]
            /\ serverBundleAssets' = IF resolved THEN TrackServerBundleAssets(out)
                                     ELSE serverBundleAssets
            /\ fs' = IF resolved
                     THEN writeFiles(fs, [i \in 1..Len(out) |-> resolveOutput(out[i])],
                                     BundleFile(c.id))
                     ELSE fs
    /\ UNCHANGED <<config, generatedAssets, serverModule, requireCache,
                   buildSeq, lastOutcome,
                   process, browser, navFile>>

\* The temporary entry files the finally block of build() removes.
FinallyRemoves == {TempClientEntry, TempServerEntry}

\* The finally block of build(): each entry file is removed if it exists;
\* then the pending rejection propagates to PageBuilder.build's catch, or
\* PageBuilder.build reads the generated CSS files and enters the page loop.
buildFinally(s) ==
    /\ call[s].pc = "buildFinally"
    /\ LET c == Log(call[s], "buildFinally", NoPage)
       IN call' = [call EXCEPT ![s] =
              IF c.pending # <<>> THEN BuildCatch(c, c.pending)
              ELSE [c EXCEPT !.generatedCSSFiles = generatedAssets,
                             !.clientStats = "none", !.serverStats = "none",
                             !.idx = 1, !.pc = "readYaml"]]
    /\ fs' = [q \in (DOMAIN fs) \ FinallyRemoves |-> fs[q]]
    /\ UNCHANGED <<config, generatedAssets, serverBundleAssets,
                   serverModule, requireCache, buildSeq, lastOutcome,
                   process, browser, navFile>>

\* --------------------------------------------- PageBuilder.build: page loop
\* A cleanup decision that remembers the page errors of the previous build.
ShouldCleanupSticky(result) ==
    Len(result.errors) = 0 /\ lastOutcome # "pageErrors"
\* A cleanup decision inverted.
ShouldCleanupOnErrors(result) == Len(result.errors) > 0

\* if (result.errors.length === 0) the server bundle is cleaned up.
ShouldCleanup(result) == Len(result.errors) = 0

\* A cleanup whose failing unlink reaches the catch of build().
UnlinkCatchRethrows(c, assetPath) == BuildCatch(c, <<"Failed to remove">>)

\* The catch inside cleanupServerBundle's loop: the message is kept in the
\* function's own list, for a console warning; the loop goes on.
UnlinkCatch(c, assetPath) == [c EXCEPT !.unlinkFailed = @ \cup {assetPath}]

\* After the page loop: cleanupServerBundle reads the Server Bundle Asset
\* List and walks it (no file: it returns at once), or is skipped.
AfterLoop(c, assets) ==
    IF ShouldCleanup(c.result)
    THEN LET d == Log(c, "cleanupServerBundle", NoPage)
         IN IF assets = <<>> THEN Return(d)
            ELSE [d EXCEPT !.serverAssets = assets, !.k = 1,
                           !.pc = "cleanupServerBundle"]
    ELSE Return(c)

\* A loop that bundles again before each further page.
LoopNextRebundles(c, assets) ==
    IF c.idx < Len(c.yamlFiles)
    THEN [c EXCEPT !.idx = @ + 1, !.pc = "createClientEntry",
                   !.pageConfig = NoPageConfig, !.html = NoHtml]
    ELSE AfterLoop(c, assets)

\* The next iteration of for (const yamlFile of yamlFiles), or the loop's end.
LoopNext(c, assets) ==
    IF c.idx < Len(c.yamlFiles)
    THEN [c EXCEPT !.idx = @ + 1, !.pc = "readYaml",
                   !.pageConfig = NoPageConfig, !.html = NoHtml]
    ELSE AfterLoop(c, assets)

\* A page loop without its catch: the page's failure reaches build()'s catch.
BuildPageCatchRethrows(c, msg, assets) == BuildCatch(c, msg)

\* A page catch that ends the loop at the first failing page.
BuildPageCatchStops(c, msg, assets) ==
    AfterLoop([c EXCEPT !.result.errors =
                 Append(@, ErrorEntry("Error building", c.yamlFiles[c.idx], msg))],
              assets)

\* The catch of the page loop: one entry naming the file, then the next page.
BuildPageCatch(c, msg, assets) ==
    LoopNext([c EXCEPT !.result.errors =
                 Append(@, ErrorEntry("Error building", c.yamlFiles[c.idx], msg))],
             assets)

\* A loop that counts a page twice.
BuildPageDoneTwice(c, assets) ==
    LoopNext([c EXCEPT !.result.pagesBuilt = @ + 2], assets)

\* buildPage returned: the page is counted, then the next page.
BuildPageDone(c, assets) ==
    LoopNext([c EXCEPT !.result.pagesBuilt = @ + 1], assets)

\* path.basename(relativePath, path.extname(relativePath))
outputName(yamlFile) == yamlFile.base
\* path.join(this.config.output, `${outputName}.html`)
outputPath(yamlFile) == Path(OutputDir, Name(outputName(yamlFile), ".html"))

\* buildPage: the page file is read and parsed.
readYaml(s) ==
    /\ call[s].pc = "readYaml"
    /\ \E outcome \in {"readError", "parseError", "page", "null"} :
         LET c0 == call[s]
             c == [Log(c0, "buildPage", c0.yamlFiles[c0.idx]) EXCEPT
                      !.untransformed = NoPage, !.navigation = 0]
         IN call' = [call EXCEPT ![s] =
                CASE outcome = "readError" ->
                       BuildPageCatch(c, <<"ENOENT", "readFile">>, serverBundleAssets)
                  [] outcome = "parseError" ->
                       BuildPageCatch(c, <<"YAMLParseError">>, serverBundleAssets)
                  [] OTHER ->
                       [c EXCEPT !.pageConfig = PageConfig(outcome, FALSE),
                                 !.pc = IF config.navigation THEN "loadNavigation"
                                        ELSE "loadServerBundle"]]
    /\ UNCHANGED <<config, fs, generatedAssets, serverBundleAssets,
                   serverModule, requireCache, buildSeq, lastOutcome,
                   process, browser, navFile>>

\* buildPage: the navigation file is read and parsed.
loadNavigation(s) ==
    /\ call[s].pc = "loadNavigation"
    /\ \E ok \in BOOLEAN :
         LET c0 == call[s]
             c == Log(c0, "loadNavigation", c0.yamlFiles[c0.idx])
         IN call' = [call EXCEPT ![s] =
                IF ok THEN [c EXCEPT !.navigation = navFile, !.pc = "loadServerBundle"]
                ELSE BuildPageCatch(c, <<"ENOENT", "navigation">>, serverBundleAssets)]
    /\ UNCHANGED <<config, fs, generatedAssets, serverBundleAssets,
                   serverModule, requireCache, buildSeq, lastOutcome,
                   process, browser, navFile>>

\* ------------------------------------------------------------ SSRRenderer
ServerBundlePath == resolveOutput(ServerJs)

\* The text of a path.
PathText(p) == p.dir \o "/" \o p.stem \o p.ext

\* A failure message that does not tell which file is missing.
BundleNotFoundUnnamed(p) == <<"Server bundle not found">>

\* new Error(`Server bundle not found at ${serverBundlePath}`)
BundleNotFound(p) == <<"Server bundle not found at", PathText(p)>>

\* A load that leaves the cache entry in place.
keepRequireCache(cache) == cache

\* delete require.cache[serverBundlePath]
deleteRequireCache(cache) == 0

\* require(serverBundlePath): the cached module when the cache holds one,
\* else the module the file on disk evaluates to.
requireBundle(cache, onDisk) == IF cache # 0 THEN cache ELSE onDisk

\* A render that requests the content transformation before it loads the
\* server bundle.
renderEnteredTransformsFirst(c, page) ==
    Log(Log(Log(c, "render", page), "transformPageContent", page),
        "loadServerBundle", page)

\* render is entered; its first statement is await loadServerBundle().
renderEntered(c, page) == Log(Log(c, "render", page), "loadServerBundle", page)

\* TemplateRenderer.render is entered and awaits loadServerBundle(): fails
\* when the bundle file is absent; else the cache entry is dropped and the
\* bundle required (its evaluation can throw, which leaves no cache entry
\* and the field as it was).
loadServerBundle(s) ==
    /\ call[s].pc = "loadServerBundle"
    /\ \E evaluates \in BOOLEAN :
         LET c0 == call[s]
             page == c0.yamlFiles[c0.idx]
             c == renderEntered(c0, page)
             present == pathExists(fs, ServerBundlePath)
             cleared == deleteRequireCache(requireCache)
             module == requireBundle(cleared, fs[ServerBundlePath].ver)
         IN IF ~present
            THEN /\ call' = [call EXCEPT ![s] =
                       BuildPageCatch([c EXCEPT !.bundleAbsent = @ \cup {page}],
                                      BundleNotFound(ServerBundlePath),
                                      serverBundleAssets)]
                 /\ UNCHANGED <<serverModule, requireCache>>
            ELSE IF evaluates
            THEN /\ call' = [call EXCEPT ![s] = [c EXCEPT !.pc = "render"]]
                 /\ serverModule' = module
                 /\ requireCache' = module
            ELSE /\ call' = [call EXCEPT ![s] =
                       BuildPageCatch(c, <<"Error", "bundle evaluation">>,
                                      serverBundleAssets)]
                 /\ requireCache' = IF cleared # 0 THEN cleared ELSE 0
                 /\ UNCHANGED serverModule
    /\ UNCHANGED <<config, fs, generatedAssets, serverBundleAssets,
                   buildSeq, lastOutcome,
                   process, browser, navFile>>

\* The fragment renderToHTML returns when the render function threw.
Fallback == "Server-Side Rendering Error"
\* What the render function of the loaded bundle can do for one page.
\* (undefined behaves as null, every other non-Error value as a string)
ThrownValues == {"Error", "string", "null"}
RenderBehaviours ==
    {[kind |-> "returns", value |-> v] : v \in {"markup"}}
    \cup {[kind |-> "throws", value |-> v] : v \in ThrownValues}

\* (error as Error).message of a thrown value: reading a property of null
\* or undefined is a TypeError.
messageReadThrows(value) == value \in {"null", "undefined"}

\* renderToHTML: [threw, msg, content].
renderToHTML(module, r) ==
    IF module = 0
    THEN [threw |-> TRUE, msg |-> <<"Server bundle not loaded">>, content |-> ""]
    ELSE IF r.kind = "returns"
    THEN [threw |-> FALSE, msg |-> <<>>, content |-> r.value]
    ELSE IF messageReadThrows(r.value)
    THEN [threw |-> TRUE, msg |-> <<"TypeError", "reading 'message'">>, content |-> ""]
    ELSE [threw |-> FALSE, msg |-> <<>>, content |-> Fallback]

\* ------------------------------------------------------- TemplateRenderer
\* transformPageContent: the transformed configuration, or on a transformer
\* failure the configuration as it was.
transformPageContent(pageConfig, transformerOk) ==
    IF transformerOk THEN [pageConfig EXCEPT !.transformed = TRUE] ELSE pageConfig

\* The configuration is null: reading pageConfig.meta is a TypeError.
isNullConfig(pageConfig) == pageConfig.doc = "null" /\ ~pageConfig.transformed

Loading == "Loading Page Constructor..."

\* Text is a sequence of symbols: a character that HTML treats specially,
\* or a run of other characters.  The empty text is also the absent value.
Special == {"&", "<", ">", "\"", "'"}

\* const div = {'&': '&amp;', '<': '&lt;', '>': '&gt;', '"': '&quot;', "'": '&#39;'}
div(char) ==
    CASE char = "&" -> "&amp;"
      [] char = "<" -> "&lt;"
      [] char = ">" -> "&gt;"
      [] char = "\"" -> "&quot;"
      [] char = "'" -> "&#39;"

\* text.replace(/[&<>"']/g, (char) => div[char])
escapeHtml(text) ==
    [i \in 1..Len(text) |-> IF text[i] \in Special THEN div(text[i]) ELSE text[i]]

\* texts.join(sep)
RECURSIVE join(_, _)
join(texts, sep) ==
    IF texts = <<>> THEN <<>>
    ELSE IF Len(texts) = 1 THEN texts[1]
    ELSE texts[1] \o sep \o join(Tail(texts), sep)

\* value || fallback
orElse(value, fallback) == IF value = <<>> THEN fallback ELSE value

\* A tag of the document head.
MetaTag(attr, key, content) == [attr |-> attr, key |-> key, content |-> content]
Link(rel, type, href) == [rel |-> rel, type |-> type, href |-> href]

\* generateMetaTags: the Open Graph tags, the Twitter Card tags, the keywords.
generateMetaTags(pageConfig) ==
    LET sharing == pageConfig.meta.sharing
        keywords == pageConfig.meta.keywords
        og(key, value) ==
            IF value # <<>> THEN <<MetaTag("property", key, escapeHtml(value))>> ELSE <<>>
        tw(key, value) ==
            IF value # <<>> THEN <<MetaTag("name", key, escapeHtml(value))>> ELSE <<>>
    IN og("og:title", sharing.title)
       \o og("og:description", sharing.description)
       \o og("og:image", sharing.image)
       \o (IF sharing.title # <<>> \/ sharing.description # <<>>
           THEN <<MetaTag("name", "twitter:card", <<"summary_large_image">>)>>
                \o tw("twitter:title", sharing.title)
                \o tw("twitter:description", sharing.description)
                \o tw("twitter:image", sharing.image)
           ELSE <<>>)
       \o (IF Len(keywords) > 0
           THEN <<MetaTag("name", "keywords", join(keywords, <<", ">>))>>
           ELSE <<>>)

\* The favicon value as configured.
faviconPath(fav) ==
    (IF fav.prefix # "" THEN <<fav.prefix>> ELSE <<>>)
    \o (IF fav.dir # "" THEN <<fav.dir, "/">> ELSE <<>>)
    \o <<fav.stem \o fav.ext>> \o fav.query

\* The extension as written, without lowering its case.
extensionAsWritten(fav) ==
    CASE fav.ext = ".ico" -> "ico"
      [] fav.ext = ".png" -> "png"
      [] fav.ext = ".svg" -> "svg"
      [] fav.ext = ".jpg" -> "jpg"
      [] fav.ext = ".jpeg" -> "jpeg"
      [] fav.ext = ".gif" -> "gif"
      [] OTHER -> fav.ext

\* faviconPath.toLowerCase().split('.').pop()
extension(fav) ==
    CASE fav.ext \in {".ico", ".ICO"} -> "ico"
      [] fav.ext \in {".png", ".PNG"} -> "png"
      [] fav.ext = ".svg" -> "svg"
      [] fav.ext = ".jpg" -> "jpg"
      [] fav.ext = ".jpeg" -> "jpeg"
      [] fav.ext = ".gif" -> "gif"
      [] OTHER -> fav.ext

\* One MIME type for every extension.
mimeTypeIconOnly(ext) == "image/x-icon"

\* switch (extension)
mimeType(ext) ==
    CASE ext = "png" -> "image/png"
      [] ext = "svg" -> "image/svg+xml"
      [] ext \in {"jpg", "jpeg"} -> "image/jpeg"
      [] ext = "gif" -> "image/gif"
      [] OTHER -> "image/x-icon"

\* faviconPath.includes('/') ? faviconPath.split('/').pop() : faviconPath
faviconFilename(fav) == <<fav.stem \o fav.ext>> \o fav.query

\* generateFaviconTags: nothing without a favicon; one bare icon link for a
\* URL; for a local file an icon link with its MIME type to assets/<file
\* name>, and a shortcut icon link besides when the extension is ico.
generateFaviconTags(cfg) ==
    LET fav == cfg.favicon
        faviconUrl == <<"assets/">> \o faviconFilename(fav)
    IN IF fav.prefix = "none" THEN <<>>
       ELSE IF isUrl(fav)
       THEN <<Link("icon", "", escapeHtml(faviconPath(fav)))>>
       ELSE <<Link("icon", mimeType(extension(fav)), escapeHtml(faviconUrl))>>
            \o (IF extension(fav) = "ico"
                THEN <<Link("shortcut icon", "", escapeHtml(faviconUrl))>>
                ELSE <<>>)

\* The text of an asset name.
NameText(name) == <<name.stem \o name.ext>>

\* JSON.stringify of a string, per symbol: a double quote gets a backslash;
\* &, <, > and the single quote stay as they are.
stringifySymbol(sym) == IF sym = "\"" THEN "\\\"" ELSE sym
stringify(text) == [i \in 1..Len(text) |-> stringifySymbol(text[i])]

\* JSON.stringify(pageConfig, null, 2): the string values of the page, in
\* the order of its keys.
JSONstringify(pageConfig) ==
    LET meta == pageConfig.meta
        each(texts) == [i \in 1..Len(texts) |-> stringify(texts[i])]
    IN each(<<meta.title, meta.description, meta.sharing.title,
              meta.sharing.description, meta.sharing.image>>)
       \o each(meta.keywords) \o each(pageConfig.css) \o each(pageConfig.js)

\* The head of the document generateHTML returns: what it interpolates, as
\* it interpolates it.
DocumentHead(pageConfig, generatedCSSFiles, cfg) ==
    [ theme |-> orElse(cfg.theme, <<"light">>),
      title |-> escapeHtml(orElse(pageConfig.meta.title, <<"Page Constructor Builder">>)),
      description |-> escapeHtml(pageConfig.meta.description),
      baseHref |-> IF orElse(cfg.baseUrl, <<"/">>) # <<"/">> THEN <<cfg.baseUrl>> ELSE <<>>,
      faviconTags |-> generateFaviconTags(cfg),
      metaTags |-> generateMetaTags(pageConfig),
      styles |-> [i \in 1..Len(generatedCSSFiles) |-> NameText(generatedCSSFiles[i])],
      css |-> pageConfig.css,
      js |-> pageConfig.js,
      payload |-> JSONstringify(pageConfig) ]

\* A document that carries the number of the build that generated it.
generateHTMLStamped(pageConfig, prerendered, generatedCSSFiles, src) ==
    [threw |-> isNullConfig(pageConfig),
     msg |-> IF isNullConfig(pageConfig) THEN <<"TypeError", "reading 'meta'">> ELSE <<>>,
     html |-> [kind |-> "html", ver |-> buildSeq,
               root |-> IF prerendered = "" THEN Loading ELSE prerendered,
               src |-> src,
               head |-> DocumentHead(pageConfig, generatedCSSFiles, config)]]

\* generateHTML: [threw, msg, html]; the root container holds the
\* pre-rendered content, or the loading indicator when it is empty.
generateHTML(pageConfig, prerendered, generatedCSSFiles, src) ==
    IF isNullConfig(pageConfig)
    THEN [threw |-> TRUE, msg |-> <<"TypeError", "reading 'meta'">>, html |-> NoHtml]
    ELSE [threw |-> FALSE, msg |-> <<>>,
          html |-> HtmlFile(IF prerendered = "" THEN Loading ELSE prerendered, src)
                   @@ [head |-> DocumentHead(pageConfig, generatedCSSFiles, config)]]

\* The rest of TemplateRenderer.render, run without suspension: the content
\* is transformed, the page pre-rendered by the loaded module, the document
\* generated.
render(s) ==
    /\ call[s].pc = "render"
    /\ \E transformerOk \in BOOLEAN, r \in RenderBehaviours :
         LET c0 == call[s]
             page == c0.yamlFiles[c0.idx]
             transformed == transformPageContent(c0.pageConfig, transformerOk)
             c1 == [Log(c0, "transformPageContent", page) EXCEPT
                       !.pageConfig = transformed,
                       !.untransformed = IF transformerOk THEN NoPage ELSE page]
             ssr == renderToHTML(serverModule, r)
             c2 == [Log(c1, "renderToHTML", page) EXCEPT
                       !.usedModule = @ \cup {serverModule},
                       !.navUsed = @ \cup {c0.navigation},
                       !.ssrThrew = IF r.kind = "throws" THEN @ \cup {page} ELSE @]
             doc == generateHTML(transformed, ssr.content, c0.generatedCSSFiles, page)
             c3 == Log(c2, "generateHTML", page)
         IN call' = [call EXCEPT ![s] =
                IF ssr.threw THEN BuildPageCatch(c2, ssr.msg, serverBundleAssets)
                ELSE IF doc.threw THEN BuildPageCatch(c3, doc.msg, serverBundleAssets)
                ELSE [c3 EXCEPT !.html = doc.html, !.pageConfig = NoPageConfig,
                                !.pc = "writeHtml"]]
    /\ UNCHANGED <<config, fs, generatedAssets, serverBundleAssets,
                   serverModule, requireCache, buildSeq, lastOutcome,
                   process, browser, navFile>>

\* await fs.writeFile(outputPath, html, 'utf-8'), the end of buildPage.
writeHtml(s) ==
    /\ call[s].pc = "writeHtml"
    /\ \E ok \in BOOLEAN :
         LET c0 == call[s]
             page == c0.yamlFiles[c0.idx]
             c == Log(c0, "writeFile", page)
         IN /\ call' = [call EXCEPT ![s] =
                  IF ok
                  THEN BuildPageDone(
                           [c EXCEPT !.written = @ \cup {page},
                                     !.untransformed = NoPage,
                                     !.rewritten =
                                        IF pathExists(fs, outputPath(page))
                                        THEN @ \cup {page} ELSE @],
                           serverBundleAssets)
                  ELSE BuildPageCatch(c, <<"EACCES", "writeFile">>, serverBundleAssets)]
            /\ fs' = IF ok THEN writeFile(fs, outputPath(page), c0.html) ELSE fs
    /\ UNCHANGED <<config, generatedAssets, serverBundleAssets,
                   serverModule, requireCache, buildSeq, lastOutcome,
                   process, browser, navFile>>

\* ------------------------------------------ PageBuilder.cleanupServerBundle
\* One iteration of for (const assetPath of serverAssets): the file is
\* unlinked if it exists; a failing unlink is a console warning only.  After
\* the last one build() returns.
cleanupServerBundle(s) ==
    /\ call[s].pc = "cleanupServerBundle"
    /\ \E ok \in BOOLEAN :
         LET c == call[s]
             assetPath == c.serverAssets[c.k]
             exists == pathExists(fs, assetPath)
             failed == exists /\ ~ok
             next == [c EXCEPT !.k = @ + 1]
             d == IF failed THEN UnlinkCatch(next, assetPath) ELSE next
         IN /\ call' = [call EXCEPT ![s] =
                  IF c.k < Len(c.serverAssets) THEN d ELSE Return(d)]
            /\ fs' = IF exists /\ ok THEN removeFile(fs, assetPath) ELSE fs
    /\ UNCHANGED <<config, generatedAssets, serverBundleAssets,
                   serverModule, requireCache, buildSeq, lastOutcome,
                   process, browser, navFile>>

\* ---------------------------------------------------------- specification
\* One run of the build command.
Next ==
    \E s \in Slots :
        \/ build(s)
        \/ ensureDir(s)
        \/ copyStaticAssets(s)
        \/ copyFavicon(s)
        \/ findYamlFiles(s)
        \/ loadComponents(s)
        \/ createClientEntry(s)
        \/ createServerEntry(s)
        \/ runWebpackClient(s)
        \/ runWebpackServer(s)
        \/ buildFinally(s)
        \/ readYaml(s)
        \/ loadNavigation(s)
        \/ loadServerBundle(s)
        \/ render(s)
        \/ writeHtml(s)
        \/ cleanupServerBundle(s)

Spec == Init /\ [][Next]_vars

\* The build command in watch mode: rebuilds, one after the other.
NextWatch ==
    \/ Next
    \/ \E s \in Slots : rebuild(s)

SpecWatch == Init /\ [][NextWatch]_vars

\* The build command in watch mode, with changes under every watched path.
NextChange ==
    \/ Next
    \/ \E s \in Slots : change(s)

SpecChange == Init /\ [][NextChange]_vars

\* Without watch mode build() runs a second time on the same directories:
\* the command is run again (a new process: a new PageBuilder whose
\* collaborators remember nothing, an empty module cache), or the caller
\* of the library calls build() again on the same instance.
buildAgain(s) ==
    /\ ~config.watch
    /\ buildSeq >= 1
    /\ buildSeq < MaxBuilds
    /\ NoBuildRunning
    /\ s = 1
    /\ buildSeq' = buildSeq + 1
    /\ lastOutcome' = Outcome(call[s])
    /\ call' = [call EXCEPT ![s] =
                  [IdleCall EXCEPT !.pc = "ensureDir", !.id = buildSeq + 1]]
    /\ \E newProcess \in BOOLEAN :
          /\ generatedAssets' = IF newProcess THEN <<>> ELSE generatedAssets
          /\ serverBundleAssets' = IF newProcess THEN <<>> ELSE serverBundleAssets
          /\ serverModule' = IF newProcess THEN 0 ELSE serverModule
          /\ requireCache' = IF newProcess THEN 0 ELSE requireCache
    /\ UNCHANGED <<config, fs, process, browser, navFile>>

\* Two builds of the same directories without watch mode.
NextTwice ==
    \/ Next
    \/ \E s \in Slots : buildAgain(s)

SpecTwice == Init /\ [][NextTwice]_vars

\* ------------------------------------------------- watch mode, two changes
\* watcher.on('change', ...) as the watcher calls it: for every change event,
\* at once, whether or not the build() of an earlier event has returned.
\* The watcher exists once the first build has returned.
handlerAtOnce(s, filePath) ==
    /\ WatcherInstalled(config)
    /\ filePath \in watchPaths(config)
    /\ buildSeq >= 1
    /\ buildSeq <= MaxBuilds
    /\ IF buildSeq = 1 THEN call[1].pc = "done" ELSE TRUE
    /\ ~Running(call[s])
    /\ \A t \in Slots : t < s => Running(call[t])
    /\ EnterFor(s, filePath)

\* The project of the example on a machine where nothing goes wrong: one
\* page file, home.yaml; the assets directory and the favicon are there; no
\* step fails or warns, the bundler reports nothing, the render function
\* returns markup.
Undisturbed(calls) ==
    \A t \in Slots :
        LET c == calls[t]
        IN /\ c.result.errors = <<>>
           /\ c.result.warnings = <<>>
           /\ c.yamlFiles \in {<<>>, <<HomeYaml>>}
           /\ c.clientStats \in {"none", "ok"}
           /\ c.serverStats \in {"none", "ok"}
           /\ c.ssrThrew = {}
           /\ c.assetsSource # "missing"
           /\ c.faviconSource # "missing"

\* Watch mode with change events that arrive at any time.
NextOverlap ==
    \/ Next /\ Undisturbed(call')
    \/ \E s \in Slots : \E filePath \in watchPaths(config) : handlerAtOnce(s, filePath)

SpecOverlap == Init /\ [][NextOverlap]_vars

\* ------------------------------------------------ a written page, loaded
\* A browser has requested a written page and parses it: the content of the
\* root container is the pre-rendered one; nothing has run.
Loaded(root) == [NoBrowser EXCEPT !.pc = "clientScript", !.root = root]

loadPage ==
    /\ browser = NoBrowser
    /\ navFile = 1
    /\ NoBuildRunning
    /\ \E p \in {q \in DOMAIN fs : fs[q].kind = "html"} : browser' = Loaded(fs[p].root)
    /\ UNCHANGED <<config, fs, generatedAssets, serverBundleAssets, serverModule,
                   requireCache, call, buildSeq, lastOutcome, process, navFile>>

\* <script src="client.js">: the bundle runs to its last statement,
\* window.hydratePageConstructor = ..., or it does not (not found, or it
\* throws on the way).
clientScript ==
    /\ browser.pc = "clientScript"
    /\ \E ok \in BOOLEAN :
         browser' = [browser EXCEPT !.registered = ok, !.pc = "inlineScript"]
    /\ UNCHANGED <<config, fs, generatedAssets, serverBundleAssets, serverModule,
                   requireCache, call, buildSeq, lastOutcome, process, navFile>>

\* The inline script while the document is parsed (readyState 'loading'):
\* the initializer is made the listener of DOMContentLoaded.
inlineScript ==
    /\ browser.pc = "inlineScript"
    /\ browser' = [browser EXCEPT !.pc = "loading"]
    /\ UNCHANGED <<config, fs, generatedAssets, serverBundleAssets, serverModule,
                   requireCache, call, buildSeq, lastOutcome, process, navFile>>

\* Some later script installs window.hydratePageConstructor.
registers ==
    /\ browser.pc \in {"loading", "complete"}
    /\ ~browser.registered
    /\ browser' = [browser EXCEPT !.registered = TRUE]
    /\ UNCHANGED <<config, fs, generatedAssets, serverBundleAssets, serverModule,
                   requireCache, call, buildSeq, lastOutcome, process, navFile>>

\* What the hydration entry point does when called: it returns, or throws.
HydrationBehaviours == {"returns"} \cup ThrownValues

\* function initializePageConstructor(), run for browser state b: without
\* the entry point a retry is scheduled; with it, it is called, and a throw
\* is caught: the panel replaces the root container's content, unless
\* reading error.message itself throws.
initializePageConstructor(b, behaviour) ==
    IF ~b.registered THEN [b EXCEPT !.timer = TRUE]
    ELSE LET called == [b EXCEPT !.calls = @ + 1]
         IN IF behaviour = "returns" THEN [called EXCEPT !.root = "hydrated"]
            ELSE IF messageReadThrows(behaviour)
            THEN [called EXCEPT !.thrown = behaviour, !.uncaught = TRUE]
            ELSE [called EXCEPT !.thrown = behaviour, !.root = "panel"]

\* DOMContentLoaded: the listener runs.
DOMContentLoaded ==
    /\ browser.pc = "loading"
    /\ \E behaviour \in HydrationBehaviours :
         browser' = initializePageConstructor([browser EXCEPT !.pc = "complete"],
                                              behaviour)
    /\ UNCHANGED <<config, fs, generatedAssets, serverBundleAssets, serverModule,
                   requireCache, call, buildSeq, lastOutcome, process, navFile>>

\* setTimeout(initializePageConstructor, 100): the timer fires.
timeout ==
    /\ browser.pc = "complete"
    /\ browser.timer
    /\ \E behaviour \in HydrationBehaviours :
         browser' = initializePageConstructor([browser EXCEPT !.timer = FALSE],
                                              behaviour)
    /\ UNCHANGED <<config, fs, generatedAssets, serverBundleAssets, serverModule,
                   requireCache, call, buildSeq, lastOutcome, process, navFile>>

\* A build of the example project, and a browser that loads a written page.
NextBrowser ==
    \/ browser = NoBrowser /\ Next /\ Undisturbed(call')
    \/ loadPage
    \/ clientScript
    \/ inlineScript
    \/ registers
    \/ DOMContentLoaded
    \/ timeout

SpecBrowser == Init /\ [][NextBrowser]_vars

\* The timers of the page fire, and the listener of DOMContentLoaded runs.
FairBrowser == SpecBrowser /\ WF_vars(timeout) /\ WF_vars(DOMContentLoaded)

\* ------------------------------------------------------ the build command
\* The catch of the command's action: console.error, process.exit(1).
exit1(p) == [p EXCEPT !.caught = TRUE, !.exitCode = 1, !.pc = "exited"]

\* The action returns and nothing keeps the process alive: it ends with the
\* exit code nobody has set.
ends(p) == [p EXCEPT !.exitCode = 0, !.pc = "exited"]

\* const config = await loadConfig(options); new PageBuilder(config): reading
\* or parsing the configuration file can throw.
loadConfig ==
    /\ process.pc = "loadConfig"
    /\ \E ok \in BOOLEAN :
         process' = IF ok THEN [process EXCEPT !.pc = "build"] ELSE exit1(process)
    /\ UNCHANGED <<config, fs, generatedAssets, serverBundleAssets, serverModule,
                   requireCache, call, buildSeq, lastOutcome, browser, navFile>>

\* After await builder.build(): the errors are printed, then the warnings;
\* then watch mode is started, or the action returns.
report ==
    /\ process.pc = "build"
    /\ buildSeq = 1
    /\ call[1].pc = "done"
    /\ LET result == call[1].result
           printed == [process EXCEPT !.errors = result.errors,
                                      !.warnings = result.warnings]
       IN process' = IF call[1].rejected THEN exit1(process)
                     ELSE IF config.watch THEN [printed EXCEPT !.pc = "watch"]
                     ELSE ends(printed)
    /\ UNCHANGED <<config, fs, generatedAssets, serverBundleAssets, serverModule,
                   requireCache, call, buildSeq, lastOutcome, browser, navFile>>

\* await builder.watch(): importing the watcher can throw; else the watcher
\* keeps the process alive.
watch ==
    /\ process.pc = "watch"
    /\ \E ok \in BOOLEAN :
         process' = IF ok THEN [process EXCEPT !.pc = "watching"] ELSE exit1(process)
    /\ UNCHANGED <<config, fs, generatedAssets, serverBundleAssets, serverModule,
                   requireCache, call, buildSeq, lastOutcome, browser, navFile>>

InitCommand ==
    /\ config \in Configs
    /\ fs = <<>>
    /\ generatedAssets = <<>>
    /\ serverBundleAssets = <<>>
    /\ serverModule = 0
    /\ requireCache = 0
    /\ call = [s \in Slots |-> IdleCall]
    /\ buildSeq = 0
    /\ lastOutcome = "none"
    /\ process = ProcessAt("loadConfig")
    /\ browser = NoBrowser
    /\ navFile = 1

\* The build command from its start to the end of its action.
NextCommand ==
    \/ loadConfig
    \/ process.pc = "build" /\ Next
    \/ report
    \/ watch

SpecCommand == InitCommand /\ [][NextCommand]_vars

\* ------------------------------------------------- the document assembler
\* The symbols of the texts a page or a configuration can hold.
Alphabet == Special \cup {"a"}

RECURSIVE TextsUpTo(_)
TextsUpTo(n) ==
    IF n = 0 THEN {<<>>}
    ELSE LET shorter == TextsUpTo(n - 1)
         IN shorter \cup {Append(t, ch) : t \in {x \in shorter : Len(x) = n - 1},
                                           ch \in Alphabet}

\* Texts that close the attribute value or the script they are written
\* into, and open an element.
Breakouts ==
    { <<"\"", ">", "<", "title", ">">>,
      <<"<", "/script", ">", "<", "title", ">">> }

Texts == TextsUpTo(MaxLen) \cup Breakouts

\* The favicon values of the configuration.
Favicons ==
    { NoFavicon, UrlFavicon, LocalFavicon,
      Favicon("http://", "example.com", "favicon", ".ico", <<>>),
      Favicon("", "", "favicon", ".ico", <<>>),
      Favicon("", "icons", "favicon", ".ico", <<>>),
      Favicon("/", "srv/site", "favicon", ".ICO", <<>>),
      Favicon("", "", "logo", ".png", <<>>),
      Favicon("", "", "logo", ".PNG", <<>>),
      Favicon("", "img", "photo", ".jpg", <<>>),
      Favicon("", "", "photo", ".jpeg", <<>>),
      Favicon("", "", "anim", ".gif", <<>>),
      Favicon("", "", "icon", ".webp", <<>>),
      Favicon("", "", "icon", "", <<>>) }

\* The place of a page or of the configuration that holds the text.
Fields ==
    {"title", "description", "sharing.title", "sharing.description",
     "sharing.image", "keywords", "css", "js", "theme", "baseUrl", "favicon"}

\* A page with the text in the field, and nothing else.
PageWith(field, text) ==
    LET at(f) == IF field = f THEN text ELSE <<>>
        list(f) == IF field = f /\ text # <<>> THEN <<text, <<"a">>>> ELSE <<>>
    IN [doc |-> "page", transformed |-> FALSE,
        meta |-> Meta(at("title"), at("description"),
                      Sharing(at("sharing.title"), at("sharing.description"),
                              at("sharing.image")),
                      list("keywords")),
        css |-> list("css"), js |-> list("js")]

\* A configuration with the text in the field.
ConfigWith(field, text, favicon, assets) ==
    [assets |-> assets, navigation |-> FALSE, components |-> FALSE, watch |-> FALSE,
     favicon |-> IF field = "favicon"
                 THEN Favicon("https://", "example.com", "icon", ".png", text)
                 ELSE favicon,
     theme |-> IF field = "theme" THEN text ELSE <<>>,
     baseUrl |-> IF field = "baseUrl" THEN text ELSE <<>>]

\* A build that has reached the favicon step, about to assemble one page.
InitAssemble ==
    /\ \E field \in Fields, text \in Texts, favicon \in Favicons, assets \in BOOLEAN :
          /\ field # "title" => favicon = NoFavicon /\ ~assets
          /\ favicon # NoFavicon => text = <<>>
          /\ config = ConfigWith(field, text, favicon, assets)
          /\ call = [s \in Slots |->
                       IF s = 1
                       THEN [IdleCall EXCEPT !.pc = "copyFavicon", !.id = 1,
                                             !.yamlFiles = <<HomeYaml>>, !.idx = 1,
                                             !.generatedCSSFiles = <<StylesCss, ChunkCss>>,
                                             !.pageConfig = PageWith(field, text)]
                       ELSE IdleCall]
    /\ fs = <<>>
    /\ generatedAssets = <<>>
    /\ serverBundleAssets = <<>>
    /\ serverModule = 0
    /\ requireCache = 0
    /\ buildSeq = 1
    /\ lastOutcome = "none"
    /\ process = ProcessAt("build")
    /\ browser = NoBrowser
    /\ navFile = 1

\* generateHTML applied to the page, with the content renderToHTML returned.
assemble(s) ==
    /\ call[s].pc = "findYamlFiles"
    /\ call[s].pageConfig # NoPageConfig
    /\ \E prerendered \in {"markup", "", Fallback} :
         LET c == Log(call[s], "generateHTML", HomeYaml)
             doc == generateHTML(c.pageConfig, prerendered, c.generatedCSSFiles, HomeYaml)
         IN call' = [call EXCEPT ![s] = [c EXCEPT !.html = doc.html, !.pc = "assembled"]]
    /\ UNCHANGED <<config, fs, generatedAssets, serverBundleAssets,
                   serverModule, requireCache, buildSeq, lastOutcome,
                   process, browser, navFile>>

NextAssemble == \E s \in Slots : copyFavicon(s) \/ assemble(s)

SpecAssemble == InitAssemble /\ [][NextAssemble]_vars

\* The page loop's pages are being built.
InPageLoop(c) ==
    c.pc \in {"readYaml", "loadNavigation", "loadServerBundle", "render", "writeHtml"}

\* The output directory is not the build's alone: server.js disappears
\* (removed from outside) while the pages are built.
serverBundleLost ==
    /\ \E s \in Slots : InPageLoop(call[s])
    /\ pathExists(fs, ServerBundlePath)
    /\ fs' = removeFile(fs, ServerBundlePath)
    /\ UNCHANGED <<config, generatedAssets, serverBundleAssets, serverModule,
                   requireCache, call, buildSeq, lastOutcome,
                   process, browser, navFile>>

\* One run of the build command in an output directory that loses server.js.
NextBundleLost ==
    \/ Next
    \/ serverBundleLost

SpecBundleLost == Init /\ [][NextBundleLost]_vars

\* ------------------------------------------------------------- properties
LoopEntered(c) == c.idx >= 1
LoopFinished(c) == c.idx >= 1 /\ c.pc \in {"cleanupServerBundle", "done"}
\* The pages whose iteration of the loop has ended.
ProcessedPages(c) ==
    {c.yamlFiles[i] : i \in 1..(IF LoopFinished(c) THEN Len(c.yamlFiles) ELSE c.idx - 1)}
ErrorsFor(c, f) == {i \in 1..Len(c.result.errors) : c.result.errors[i].file = f}
HtmlFiles == {p \in DOMAIN fs : p.ext = ".html"}
Last(q) == q[Len(q)]

\* C1: in the page loop every discovered page is processed exactly once; a
\* page either is written and counted, or adds exactly one error entry that
\* names its file and is not counted, and the pages after it are still
\* processed; when the loop has ended pagesBuilt is the number of pages
\* that succeeded and the HTML files written are exactly theirs.
C1_PageFailuresAreLocal ==
    \A s \in Slots :
        LET c == call[s]
        IN LoopEntered(c) =>
             /\ \A f \in ProcessedPages(c) :
                    /\ CountFor(c, "buildPage", f) = 1
                    /\ \/ f \in c.written /\ ErrorsFor(c, f) = {}
                       \/ f \notin c.written /\ Cardinality(ErrorsFor(c, f)) = 1
             /\ \A i \in 1..Len(c.result.errors) :
                    /\ c.result.errors[i].kind = "Error building"
                    /\ c.result.errors[i].file \in ProcessedPages(c)
             /\ c.written \subseteq ProcessedPages(c)
             /\ c.result.pagesBuilt = Cardinality(c.written)
             /\ LoopFinished(c) =>
                    /\ c.result.pagesBuilt + Len(c.result.errors) = Len(c.yamlFiles)
                    /\ HtmlFiles = {outputPath(f) : f \in c.written}

\* C1 witness: broken.yaml malformed, then home.yaml valid.
C1_Witness ==
    \E s \in Slots :
        LET c == call[s]
        IN /\ c.pc = "done"
           /\ c.yamlFiles = <<BrokenYaml, HomeYaml>>
           /\ c.result.pagesBuilt = 1
           /\ Len(c.result.errors) = 1
           /\ c.result.errors[1].file = BrokenYaml
           /\ c.result.errors[1].msg = <<"YAMLParseError">>
           /\ HtmlFiles = {outputPath(HomeYaml)}

\* C2: the server bundle cleanup runs exactly when the page loop of that
\* build ended with an empty error list; with a page error the server
\* bundle files of the build stay in place; the previous build's outcome
\* plays no part.
C2_CleanupIffNoPageErrors ==
    \A s \in Slots :
        LET c == call[s]
        IN /\ Did(c, "cleanupServerBundle") =>
                LoopFinished(c) /\ c.result.errors = <<>>
           /\ LoopFinished(c) =>
                (Did(c, "cleanupServerBundle") <=> c.result.errors = <<>>)
           /\ LoopFinished(c) /\ c.result.errors # <<>> =>
                \A i \in 1..Len(serverBundleAssets) :
                    /\ pathExists(fs, serverBundleAssets[i])
                    /\ fs[serverBundleAssets[i]].ver = c.id

\* C2 witness: a rebuild cleans up although the build before it had page errors.
C2_Witness ==
    \E s \in Slots :
        LET c == call[s]
        IN /\ c.id = 2
           /\ lastOutcome = "pageErrors"
           /\ c.pc = "done"
           /\ Did(c, "cleanupServerBundle")
           /\ c.result.errors = <<>>

StepsAfterDiscovery ==
    {"loadComponents", "webpackBuilder.build", "createClientEntry",
     "createServerEntry", "runWebpackClient", "runWebpackServer", "buildFinally",
     "buildPage", "render", "loadServerBundle", "renderToHTML", "generateHTML",
     "writeFile", "cleanupServerBundle"}

\* C4: when page discovery returns no file, build() returns at once with
\* exactly one warning, pagesBuilt = 0 and no error, and neither the
\* component scan, nor a bundler run, nor a page render, nor the server
\* bundle cleanup is executed in that build.
C4_NoPagesReturnsEarly ==
    \A s \in Slots :
        LET c == call[s]
        IN c.discovery = "empty" =>
             /\ c.pc = "done"
             /\ ~c.rejected
             /\ c.result.warnings = <<<<"No YAML files found in input directory">>>>
             /\ c.result.pagesBuilt = 0
             /\ c.result.errors = <<>>
             /\ Last(c.trace).ev = "findYamlFiles"
             /\ \A ev \in StepsAfterDiscovery : ~Did(c, ev)
             /\ \A p \in DOMAIN fs : fs[p].kind = "asset"

\* C4 witness: an empty input directory, after the favicon was copied.
C4_Witness ==
    \E s \in Slots :
        LET c == call[s]
        IN /\ c.discovery = "empty"
           /\ c.pc = "done"
           /\ c.yamlFiles = <<>>
           /\ Len(c.result.warnings) = 1
           /\ pathExists(fs, Path("out/assets", LogoSvg))

BundlingEvents ==
    {"webpackBuilder.build", "createClientEntry", "createServerEntry",
     "runWebpackClient", "runWebpackServer", "buildFinally"}

\* C5: WebpackBuilder.build is invoked at most once in a build, and exactly
\* once (one browser-target run, one server-target run) in a build that
\* reaches the page loop, whatever the number of pages; all of it precedes
\* every page step; a page is rendered at most once, and every page that is
\* written was rendered exactly once.
C5_BundlingOncePerBuild ==
    \A s \in Slots :
        LET c == call[s]
        IN /\ \A ev \in BundlingEvents : Count(c, ev) <= 1
           /\ LoopEntered(c) => \A ev \in BundlingEvents : Count(c, ev) = 1
           /\ \A i, j \in 1..Len(c.trace) :
                  c.trace[i].ev \in BundlingEvents /\ c.trace[j].page # NoPage => i < j
           /\ \A f \in Range(c.yamlFiles) :
                  /\ CountFor(c, "render", f) <= 1
                  /\ CountFor(c, "renderToHTML", f) <= 1
                  /\ CountFor(c, "buildPage", f) <= 1
                  /\ f \in c.written =>
                        CountFor(c, "render", f) = 1 /\ CountFor(c, "renderToHTML", f) = 1
           /\ LoopFinished(c) =>
                  \A f \in Range(c.yamlFiles) : CountFor(c, "buildPage", f) = 1

\* C5 witness: two pages rendered and written after one bundling.
C5_Witness ==
    \E s \in Slots :
        LET c == call[s]
        IN /\ c.pc = "done"
           /\ c.yamlFiles = <<BrokenYaml, HomeYaml>>
           /\ c.written = {BrokenYaml, HomeYaml}
           /\ Count(c, "webpackBuilder.build") = 1
           /\ Count(c, "runWebpackClient") = 1
           /\ Count(c, "runWebpackServer") = 1
           /\ Count(c, "renderToHTML") = 2

\* build() ended before its page loop, and not by the early return.
StructuralFailure(c) == c.pc = "done" /\ c.idx = 0 /\ c.discovery # "empty"

\* The steps of build() before the page loop, in program order.
StepOrder ==
    <<"ensureDir", "copyStaticAssets", "copyFavicon", "findYamlFiles",
      "loadComponents", "webpackBuilder.build", "createClientEntry",
      "createServerEntry", "runWebpackClient", "runWebpackServer", "buildFinally">>
StepIndex(ev) == CHOOSE i \in 1..Len(StepOrder) : StepOrder[i] = ev

\* C6: build() never rejects; what it returns has a numeric pagesBuilt, a
\* numeric buildTime, an error list and a warning list; a failure of a step
\* before the page loop ends the build there with exactly one
\* 'Build failed' error, no page processed and nothing counted.
C6_BuildNeverRejects ==
    \A s \in Slots :
        LET c == call[s]
        IN /\ ~c.rejected
           /\ c.result.pagesBuilt \in Nat
           /\ c.result.buildTime \in Nat
           /\ DOMAIN c.result = {"pagesBuilt", "buildTime", "errors", "warnings"}
           /\ DOMAIN c.result.errors = 1..Len(c.result.errors)
           /\ DOMAIN c.result.warnings = 1..Len(c.result.warnings)
           /\ StructuralFailure(c) =>
                 /\ Len(c.result.errors) = 1
                 /\ c.result.errors[1].kind = "Build failed"
                 /\ c.result.errors[1].file = NoPage
                 /\ c.result.errors[1].msg # <<>>
                 /\ c.result.pagesBuilt = 0
                 /\ c.result.warnings = <<>>
                 /\ c.result.buildTime = Len(c.trace)
                 /\ \A i \in 1..Len(c.trace) : c.trace[i].page = NoPage
                 /\ \A i, j \in 1..Len(c.trace) :
                        i < j => StepIndex(c.trace[i].ev) < StepIndex(c.trace[j].ev)
                 /\ HtmlFiles = {}
           /\ \A i \in 1..Len(c.result.errors) :
                 c.result.errors[i].kind = "Build failed" =>
                     StructuralFailure(c) /\ Len(c.result.errors) = 1

\* C6 witness: the browser-target run fails with a fatal bundler error.
C6_Witness ==
    \E s \in Slots :
        LET c == call[s]
        IN /\ c.pc = "done"
           /\ c.clientStats = "fatal"
           /\ c.result.errors =
                 <<ErrorEntry("Build failed", NoPage, <<"webpack: fatal error">>)>>
           /\ c.result.pagesBuilt = 0
           /\ Last(c.trace).ev = "buildFinally"

\* The invocation of WebpackBuilder.build has returned or thrown.
WebpackBuildEnded(c) ==
    /\ Did(c, "webpackBuilder.build")
    /\ c.pc \notin {"createServerEntry", "runWebpackClient", "runWebpackServer",
                    "buildFinally"}

\* C7: after every invocation of WebpackBuilder.build, whether it returned
\* or threw and whichever step failed, neither temporary entry file exists
\* under the package root.
C7_NoTempEntryFileRemains ==
    \A s \in Slots :
        WebpackBuildEnded(call[s]) =>
            \A p \in FinallyRemoves : ~pathExists(fs, p)

\* C8: when the bundler reports compilation errors for either target,
\* build() ends with a single 'Build failed' error whose message holds
\* every compilation error message, and no page is processed; compilation
\* warnings alone do not fail a run, and the run's asset list is recorded.
C8_CompilationErrorsAggregated ==
    \A s \in Slots :
        LET c == call[s]
        IN /\ c.compileErrors # <<>> =>
                 /\ c.pc \in {"buildFinally", "done"}
                 /\ \A e \in Range(c.compileErrors) : e \in Range(c.pending)
                 /\ Len(c.pending) = Len(c.compileErrors) + 1
                 /\ \A i \in 1..Len(c.trace) : c.trace[i].page = NoPage
                 /\ c.pc = "done" =>
                       /\ c.result.errors = <<ErrorEntry("Build failed", NoPage, c.pending)>>
                       /\ c.result.pagesBuilt = 0
                       /\ HtmlFiles = {}
           /\ c.clientStats = "warnings" =>
                 /\ c.pc = "runWebpackServer" => c.pending = <<>>
                 /\ generatedAssets = <<StylesCss, ChunkCss>>
           /\ c.serverStats = "warnings" =>
                 /\ c.pc = "buildFinally" /\ c.pending = <<>>
                 /\ serverBundleAssets # <<>>
                 /\ \A i \in 1..Len(serverBundleAssets) :
                        /\ pathExists(fs, serverBundleAssets[i])
                        /\ fs[serverBundleAssets[i]].ver = c.id

\* C8 witness: the server-target run reports two compilation errors.
C8_Witness ==
    \E s \in Slots :
        LET c == call[s]
        IN /\ c.pc = "done"
           /\ c.serverStats = "errors"
           /\ c.compileErrors = <<"e1", "e2">>
           /\ c.result.errors =
                 <<ErrorEntry("Build failed", NoPage,
                              <<"Webpack compilation errors:", "e1", "e2">>)>>

\* C9: every page render of a build calls the module loaded from the server
\* bundle that this build's server-target run produced, never a module of
\* an earlier build.
C9_RenderUsesOwnBundle ==
    \A s \in Slots :
        LET c == call[s]
        IN /\ c.usedModule \subseteq {c.id}
           /\ c.pc = "render" => serverModule = c.id /\ requireCache = c.id

\* C9 witness: a page of the second build rendered by the second bundle,
\* the first build's bundle having been loaded before.
C9_Witness ==
    \E s \in Slots :
        LET c == call[s]
        IN /\ c.id = 2
           /\ lastOutcome \in {"ok", "pageErrors"}
           /\ c.usedModule = {2}
           /\ c.written # {}

\* C10: when the render function throws, whatever the value thrown,
\* renderToHTML returns the fallback fragment: the document is generated
\* with the fragment in the root container, and unless generating or
\* writing the document fails the page is written and counted with no
\* entry in the error list.
C10_RenderThrowFallsBack ==
    \A s \in Slots :
        LET c == call[s]
        IN \A f \in c.ssrThrew :
             /\ CountFor(c, "generateHTML", f) = 1
             /\ c.pc = "writeHtml" /\ c.yamlFiles[c.idx] = f => c.html.root = Fallback
             /\ \A i \in ErrorsFor(c, f) :
                    c.result.errors[i].msg \in
                        {<<"TypeError", "reading 'meta'">>, <<"EACCES", "writeFile">>}

\* C11: for a page at whose rendering the server bundle file is absent,
\* renderToHTML is never reached, the error list holds exactly one entry
\* for the page and it names the missing bundle path, the loop has moved
\* past the page, and when the loop ends every page has been processed.
C11_MissingBundleIsAPageError ==
    \A s \in Slots :
        LET c == call[s]
        IN /\ ~c.rejected
           /\ \A f \in c.bundleAbsent :
                 /\ CountFor(c, "loadServerBundle", f) = 1
                 /\ CountFor(c, "renderToHTML", f) = 0
                 /\ CountFor(c, "generateHTML", f) = 0
                 /\ f \notin c.written
                 /\ f \in ProcessedPages(c)
                 /\ Cardinality(ErrorsFor(c, f)) = 1
                 /\ \A i \in ErrorsFor(c, f) :
                       /\ c.result.errors[i].kind = "Error building"
                       /\ c.result.errors[i].msg =
                             <<"Server bundle not found at", "out/server.js">>
           /\ LoopFinished(c) =>
                 /\ \A f \in Range(c.yamlFiles) : CountFor(c, "buildPage", f) = 1
                 /\ c.result.pagesBuilt + Len(c.result.errors) = Len(c.yamlFiles)

\* C11 witness: server.js is gone for the first page, the second page is
\* processed too.
C11_Witness ==
    \E s \in Slots :
        LET c == call[s]
        IN /\ c.pc = "done"
           /\ c.yamlFiles = <<BrokenYaml, HomeYaml>>
           /\ c.bundleAbsent = {BrokenYaml, HomeYaml}
           /\ Len(c.result.errors) = 2
           /\ c.result.pagesBuilt = 0

\* The entries of the error list that a page added.
PageErrors(c) ==
    {i \in 1..Len(c.result.errors) : c.result.errors[i].kind = "Error building"}
\* The entries of the error list that build()'s own catch added.
TopLevelErrors(c) ==
    {i \in 1..Len(c.result.errors) : c.result.errors[i].kind = "Build failed"}

\* C12 as stated: in every state pagesBuilt + errors.length is at most the
\* number of page files the build discovered.
C12_CountsBoundedByDiscovered ==
    \A s \in Slots :
        LET c == call[s]
        IN c.result.pagesBuilt + Len(c.result.errors) <= Len(c.yamlFiles)

\* C12 amended: in every state pagesBuilt plus the number of page-level
\* entries of the error list is the number of pages whose iteration has
\* ended, hence at most the number of page files discovered; the error list
\* holds besides them at most one top-level 'Build failed' entry, which is
\* added only when no page has been processed, so pagesBuilt +
\* errors.length is at most the number discovered in a build that enters
\* its page loop and at most 1 otherwise.
C12_PageCountsBoundedByDiscovered ==
    \A s \in Slots :
        LET c == call[s]
        IN /\ c.result.pagesBuilt + Cardinality(PageErrors(c))
                 = Cardinality(ProcessedPages(c))
           /\ c.result.pagesBuilt + Cardinality(PageErrors(c)) <= Len(c.yamlFiles)
           /\ Len(c.result.errors)
                 = Cardinality(PageErrors(c)) + Cardinality(TopLevelErrors(c))
           /\ Cardinality(TopLevelErrors(c)) <= 1
           /\ TopLevelErrors(c) # {} =>
                 c.result.pagesBuilt = 0 /\ PageErrors(c) = {} /\ ~LoopEntered(c)
           /\ LoopEntered(c) =>
                 c.result.pagesBuilt + Len(c.result.errors) <= Len(c.yamlFiles)

\* C12 witness: two pages discovered, one built and one failed.
C12_Witness ==
    \E s \in Slots :
        LET c == call[s]
        IN /\ c.pc = "done"
           /\ Len(c.yamlFiles) = 2
           /\ c.result.pagesBuilt = 1
           /\ Cardinality(PageErrors(c)) = 1
           /\ Len(c.result.errors) = 1

\* C13: two distinct page files of a build are never written to the same
\* output path, and a build that ends with no error leaves as many HTML
\* files as it discovered page files.
C13_OneOutputFilePerPage ==
    \A s \in Slots :
        LET c == call[s]
        IN /\ \A f, g \in c.written : f # g => outputPath(f) # outputPath(g)
           /\ LoopFinished(c) /\ c.pc = "done" /\ c.result.errors = <<>> =>
                 Cardinality(HtmlFiles) = Len(c.yamlFiles)

CurrentPage(c) == c.yamlFiles[c.idx]

\* C15: when a build without watch mode writes the HTML file of a page that
\* an earlier build of the same directories has written, and the page's
\* pre-rendered content is the same, the file's new content is identical to
\* its old content: nothing of the document depends on the build that
\* generated it.
C15_SecondBuildWritesSameHtml ==
    [][\A s \in Slots :
          LET c == call[s]
              p == outputPath(CurrentPage(c))
          IN (/\ c.pc = "writeHtml"
              /\ pathExists(fs, p)
              /\ fs[p].src = CurrentPage(c)
              /\ fs[p].root = c.html.root
              /\ fs'[p] # fs[p])
             => FALSE]_vars

\* C15 witness: the second build has written home.html again, after a first
\* build that ended without error.
C15_Witness ==
    \E s \in Slots :
        LET c == call[s]
        IN /\ c.id = 2
           /\ ~config.watch
           /\ lastOutcome = "ok"
           /\ c.pc = "done"
           /\ c.yamlFiles = <<HomeYaml>>
           /\ c.rewritten = {HomeYaml}
           /\ fs[outputPath(HomeYaml)].src = HomeYaml
           /\ fs[outputPath(HomeYaml)].root = "markup"

\* The interpolated texts of a document that come from the page or from
\* the configuration.
InterpolatedTexts(html) ==
    {html.head.theme, html.head.title, html.head.description}
    \cup Range(html.head.baseHref)
    \cup {html.head.faviconTags[i].href : i \in 1..Len(html.head.faviconTags)}
    \cup {html.head.metaTags[i].content : i \in 1..Len(html.head.metaTags)}
    \cup Range(html.head.css)
    \cup Range(html.head.js)

\* C16: in the assembled document no interpolated text that comes from the
\* page or from the configuration (title, description, sharing fields,
\* keywords, favicon path, stylesheet and script references, base URL,
\* theme) holds a raw &, <, >, double quote or single quote.
C16_EveryInterpolationEscaped ==
    \A s \in Slots :
        LET c == call[s]
        IN c.pc = "assembled" =>
             \A text \in InterpolatedTexts(c.html) :
                 \A i \in 1..Len(text) : text[i] \notin Special

\* What an HTML parser reads for a symbol of an attribute value.
decodeSymbol(sym) ==
    CASE sym = "&amp;" -> "&"
      [] sym = "&lt;" -> "<"
      [] sym = "&gt;" -> ">"
      [] sym = "&quot;" -> "\""
      [] sym = "&#39;" -> "'"
      [] OTHER -> sym
decodeHtml(text) == [i \in 1..Len(text) |-> decodeSymbol(text[i])]

BothIconLinks(c) ==
    LET tags == c.html.head.faviconTags
        href == escapeHtml(<<"assets/">> \o faviconFilename(config.favicon))
    IN /\ Len(tags) = 2
       /\ tags[1].rel = "icon"
       /\ tags[2].rel = "shortcut icon"
       /\ tags[1].href = href
       /\ tags[2].href = href

\* C18, as stated: for every favicon value ending in .ico, the assembled
\* document has both an icon link and a shortcut icon link to the same
\* assets/<basename> path.
C18_IcoHasBothLinks ==
    \A s \in Slots :
        (call[s].pc = "assembled" /\ config.favicon.prefix # "none"
           /\ config.favicon.ext = ".ico" /\ config.favicon.query = <<>>)
        => BothIconLinks(call[s])

\* C18, amended: for every favicon value that is not an http(s) URL and
\* whose extension is .ico in any letter case, the assembled document has an
\* icon link of type image/x-icon and a shortcut icon link, both to
\* assets/<basename>.
C18_LocalIcoHasBothLinks ==
    \A s \in Slots :
        (call[s].pc = "assembled"
           /\ config.favicon.prefix \notin {"none", "http://", "https://"}
           /\ config.favicon.ext \in {".ico", ".ICO"} /\ config.favicon.query = <<>>)
        => /\ BothIconLinks(call[s])
           /\ call[s].html.head.faviconTags[1].type = "image/x-icon"

\* C18 witness: icons/favicon.ico, and /srv/site/favicon.ICO, assembled.
C18_Witness ==
    \E s \in Slots :
        /\ call[s].pc = "assembled"
        /\ config.favicon \in {Favicon("", "icons", "favicon", ".ico", <<>>),
                               Favicon("/", "srv/site", "favicon", ".ICO", <<>>)}
        /\ call[s].html.head.faviconTags[2] =
              Link("shortcut icon", "",
                   <<"assets/", "favicon" \o config.favicon.ext>>)

\* The documents of invocation c: the one in its hands, and the files of
\* the pages it has written.
Documents(c) ==
    {d \in {c.html} \cup {fs[outputPath(page)] : page \in c.written} :
        d.kind = "html"}

\* The copy of the favicon failed in invocation c.
CopyFailed(c) ==
    \E i \in 1..Len(c.result.errors) : c.result.errors[i].msg = <<"EIO", "copy">>

\* The MIME type the extension of a file name stands for.
MimeOf(ext) ==
    CASE ext \in {".png", ".PNG"} -> "image/png"
      [] ext = ".svg" -> "image/svg+xml"
      [] ext \in {".jpg", ".jpeg"} -> "image/jpeg"
      [] ext = ".gif" -> "image/gif"
      [] OTHER -> "image/x-icon"

\* C19: when the favicon is a local file that was found (in the assets
\* directory or relative to the project root) and copied, the file is at
\* <output>/assets/<basename>, and every document of the build has an icon
\* link to assets/<basename> whose type is the MIME type of the extension.
C19_LocalFaviconCopiedAndLinked ==
    \A s \in Slots :
        LET c == call[s]
            fav == config.favicon
        IN (c.faviconSource = "found" /\ ~CopyFailed(c)) =>
             /\ pathExists(fs, Path("out/assets", basename(fav)))
             /\ fs[Path("out/assets", basename(fav))].kind = "asset"
             /\ \A d \in Documents(c) :
                   /\ Len(d.head.faviconTags) >= 1
                   /\ d.head.faviconTags[1] =
                        Link("icon", MimeOf(fav.ext),
                             <<"assets/", basename(fav).stem \o basename(fav).ext>>)

\* C19 witness: favicon logo.svg, a finished build without errors that
\* wrote a page, assets/logo.svg in the output directory and the link of
\* type image/svg+xml in the page's file.
C19_Witness ==
    \E s \in Slots :
        LET c == call[s]
        IN /\ Outcome(c) = "ok"
           /\ c.faviconSource = "found"
           /\ config.favicon = LocalFavicon
           /\ pathExists(fs, Path("out/assets", Name("logo", ".svg")))
           /\ \E page \in c.written :
                 fs[outputPath(page)].head.faviconTags =
                     <<Link("icon", "image/svg+xml", <<"assets/", "logo.svg">>)>>

\* The title start tags an HTML tokenizer finds in a text written at a place
\* of the template: inside a double-quoted attribute value ("attr"), inside
\* the title element ("rcdata"), inside the inline script ("script").
RECURSIVE titleTags(_, _)
titleTags(mode, text) ==
    IF text = <<>> THEN 0
    ELSE LET sym == Head(text)
             rest == Tail(text)
             closes(name) == sym = "<" /\ Len(rest) >= 2
                             /\ rest[1] = name /\ rest[2] = ">"
         IN CASE mode = "attr" ->
                   titleTags(IF sym = "\"" THEN "tag" ELSE "attr", rest)
              [] mode = "tag" ->
                   titleTags(IF sym = ">" THEN "data"
                             ELSE IF sym = "\"" THEN "attr" ELSE "tag", rest)
              [] mode = "script" ->
                   IF closes("/script") THEN titleTags("data", Tail(Tail(rest)))
                   ELSE titleTags("script", rest)
              [] mode = "rcdata" ->
                   IF closes("/title") THEN titleTags("data", Tail(Tail(rest)))
                   ELSE titleTags("rcdata", rest)
              [] OTHER ->
                   IF closes("title") THEN 1 + titleTags("rcdata", Tail(Tail(rest)))
                   ELSE titleTags(IF sym = "<" THEN "tag" ELSE "data", rest)

\* The places of the template that a text of the page or of the
\* configuration is written into, in document order, each with its text.
Sites(html) ==
    LET h == html.head
        attrs(texts) == [i \in 1..Len(texts) |-> <<"attr", texts[i]>>]
    IN <<<<"attr", h.theme>>, <<"rcdata", h.title>>, <<"attr", h.description>>>>
       \o attrs(h.baseHref)
       \o [i \in 1..Len(h.faviconTags) |-> <<"attr", h.faviconTags[i].href>>]
       \o [i \in 1..Len(h.metaTags) |-> <<"attr", h.metaTags[i].content>>]
       \o attrs(h.css)
       \o [i \in 1..Len(h.payload) |-> <<"script", h.payload[i]>>]
       \o <<<<"script", h.theme>>>>
       \o attrs(h.js)

\* The title elements of a document: the one of the template, and those
\* that the written texts open.
RECURSIVE titlesOpened(_)
titlesOpened(sites) ==
    IF sites = <<>> THEN 0
    ELSE titleTags(Head(sites)[1], Head(sites)[2]) + titlesOpened(Tail(sites))
TitleElements(html) == 1 + titlesOpened(Sites(html))

\* C20: for every page, under a configuration with the default theme and
\* base URL, the assembled document has exactly one title element, and the
\* text of the template's title element is the escaped page title, or the
\* placeholder 'Page Constructor Builder' when the page has no title.
C20_ExactlyOneTitle ==
    \A s \in Slots :
        LET c == call[s]
        IN (c.pc = "assembled" /\ config.theme = <<>> /\ config.baseUrl = <<>>) =>
             /\ TitleElements(c.html) = 1
             /\ c.html.head.title =
                   IF c.pageConfig.meta.title = <<>>
                   THEN <<"Page Constructor Builder">>
                   ELSE escapeHtml(c.pageConfig.meta.title)

PhaseOf(event) ==
    CASE event.page # NoPage -> 7
      [] event.ev = "ensureDir" -> 1
      [] event.ev = "copyStaticAssets" -> 2
      [] event.ev = "copyFavicon" -> 3
      [] event.ev = "findYamlFiles" -> 4
      [] event.ev = "loadComponents" -> 5
      [] event.ev \in BundlingEvents -> 6
      [] OTHER -> 8

\* The place of a page file in the enumeration.
IndexOf(c, page) == CHOOSE k \in 1..Len(c.yamlFiles) : c.yamlFiles[k] = page

\* C23: the steps of an invocation are executed in the order Init, assets
\* copied, favicon copied, pages discovered, components loaded, bundled,
\* pages rendered, cleaned up: a step is only executed after every earlier
\* one (the assets copy only when an assets directory is configured), each
\* step before the page loop once; the pages are handled one at a time in
\* enumeration order; the cleanup comes after every page was processed, and
\* a build that finished its page loop has cleaned up or has errors.
C23_FixedStepOrder ==
    \A s \in Slots :
        LET c == call[s]
            t == c.trace
        IN /\ \A i, j \in 1..Len(t) : i < j => PhaseOf(t[i]) <= PhaseOf(t[j])
           /\ \A i \in 1..Len(t) : \A k \in 1..(PhaseOf(t[i]) - 1) :
                  (k # 2 \/ config.assets) => \E j \in 1..i : PhaseOf(t[j]) = k
           /\ \A ev \in Range(StepOrder) : Count(c, ev) <= 1
           /\ Count(c, "cleanupServerBundle") <= 1
           /\ \A i, j \in 1..Len(t) :
                  (i < j /\ PhaseOf(t[i]) = 7 /\ PhaseOf(t[j]) = 7)
                  => IndexOf(c, t[i].page) <= IndexOf(c, t[j].page)
           /\ \A i \in 1..Len(t) :
                  PhaseOf(t[i]) = 7 =>
                     \A k \in 1..IndexOf(c, t[i].page) :
                         CountFor(c, "buildPage", c.yamlFiles[k]) = 1
           /\ Did(c, "cleanupServerBundle") =>
                  \A page \in Range(c.yamlFiles) : CountFor(c, "buildPage", page) = 1
           /\ (c.pc = "done" /\ LoopEntered(c)) =>
                  (Did(c, "cleanupServerBundle") <=> c.result.errors = <<>>)

\* C23 witness: a build with an assets directory that went through every
\* step, two pages, and the cleanup.
C23_Witness ==
    \E s \in Slots :
        LET c == call[s]
        IN /\ Outcome(c) = "ok"
           /\ config.assets
           /\ c.yamlFiles = <<BrokenYaml, HomeYaml>>
           /\ c.written = {BrokenYaml, HomeYaml}
           /\ {PhaseOf(c.trace[i]) : i \in 1..Len(c.trace)} = 1..8
           /\ Last(c.trace).ev = "cleanupServerBundle"

\* The place in the trace of step ev for a page (0 when it was not executed).
At(c, ev, page) ==
    IF CountFor(c, ev, page) = 0 THEN 0
    ELSE CHOOSE i \in 1..Len(c.trace) : c.trace[i] = Event(ev, page)

Bundling(c) == c.pc \in {"createServerEntry", "runWebpackClient", "runWebpackServer"}

\* C25: no two invocations of build() are in progress at the same time, and
\* an invocation that is bundling has its client entry file on disk.
C25_BuildsNeverOverlap ==
    /\ \A s, t \in Slots : (Running(call[s]) /\ Running(call[t])) => s = t
    /\ \A s \in Slots : Bundling(call[s]) => pathExists(fs, TempClientEntry)

\* C26: on a loaded page the hydration entry point is called at most once;
\* no retry is pending once it was called; and when the call threw, the
\* root container holds the diagnostic panel.
C26_HydrationCalledOnce ==
    browser # NoBrowser =>
        /\ browser.calls <= 1
        /\ browser.calls = 1 => ~browser.timer
        /\ (browser.calls = 0 /\ browser.pc = "complete") => browser.timer
        /\ browser.thrown # "none" => browser.root = "panel"

\* ---------------------------------------------------------------------------
\* The navigation file while a build runs
\* ---------------------------------------------------------------------------

\* Revisions the navigation file goes through.
MaxRevisions == 2

\* The navigation file is saved with new content; the builder holds no copy
\* of it, every buildPage reads the file again.
navigationSaved ==
    /\ config.navigation
    /\ navFile < MaxRevisions
    /\ navFile' = navFile + 1
    /\ UNCHANGED <<config, fs, generatedAssets, serverBundleAssets,
                   serverModule, requireCache, call, buildSeq, lastOutcome,
                   process, browser>>

NextNavigation ==
    \/ Next
    \/ navigationSaved

SpecNavigation == Init /\ [][NextNavigation]_vars

\* C27: with a navigation file configured, the navigation data is loaded
\* once per build, and every page of one build is rendered with identical
\* navigation data.
C27_OneNavigationPerBuild ==
    \A s \in Slots :
        config.navigation =>
            /\ Count(call[s], "loadNavigation") <= 1
            /\ Cardinality(call[s].navUsed) <= 1

\* The names of `names` that end in .css, in the order of `names`: `list`
\* is that selection when its k-th entry is the k-th such name.
IsCssSelection(list, names) ==
    LET css == {i \in 1..Len(names) : names[i].ext = ".css"}
    IN /\ Len(list) = Cardinality(css)
       /\ \A i \in css : list[Cardinality({j \in css : j <= i})] = names[i]

\* `list` holds the absolute path in the output directory of every name of
\* `names`, in order.
IsResolvedList(list, names) ==
    /\ Len(list) = Len(names)
    /\ \A i \in 1..Len(names) :
          list[i] = [dir |-> OutputDir, stem |-> names[i].stem, ext |-> names[i].ext]

\* C28: after a successful WebpackBuilder.build the Generated Stylesheet List
\* is exactly the .css asset names of this invocation's browser-target run,
\* in output order, and the Server Bundle Asset List is exactly the resolved
\* paths of all assets of its server-target run; a resolved run replaces its
\* own list and leaves the other target's list unchanged.
C28_AssetListsTrackOwnRun ==
    [][\A s \in Slots :
          LET c == call[s]
              d == call'[s]
          IN /\ (c.pc = "runWebpackClient" /\ d.pc = "runWebpackServer") =>
                   /\ IsCssSelection(generatedAssets', d.clientEmitted)
                   /\ serverBundleAssets' = serverBundleAssets
             /\ (c.pc = "runWebpackServer" /\ d.pending = <<>>) =>
                   /\ IsResolvedList(serverBundleAssets', d.serverEmitted)
                   /\ generatedAssets' = generatedAssets
             /\ (d.pc = "buildFinally" /\ d.pending = <<>>) =>
                   /\ IsCssSelection(generatedAssets', d.clientEmitted)
                   /\ IsResolvedList(serverBundleAssets', d.serverEmitted)]_vars

\* C28 witness: the second build on one builder has bundled successfully;
\* the lists of the first build were not empty, and the server run of the
\* second emitted one asset only.
C28_Witness ==
    \E s \in Slots :
        /\ call[s].id = 2
        /\ call[s].pc = "buildFinally"
        /\ call[s].pending = <<>>
        /\ lastOutcome = "ok"
        /\ generatedAssets = <<StylesCss, ChunkCss>>
        /\ serverBundleAssets = <<resolveOutput(ServerJs)>>
        /\ Len(call[s].serverEmitted) = 1

\* C29: a returned Build Result with a top-level 'Build failed' error has
\* that error as its only entry and pagesBuilt = 0, and in that build no
\* page was rendered or written and the server-bundle cleanup did not run;
\* no Build Result holds both a top-level and a per-page error.
C29_TopLevelErrorStandsAlone ==
    \A s \in Slots :
        LET c == call[s]
        IN /\ ~(TopLevelErrors(c) # {} /\ PageErrors(c) # {})
           /\ (c.pc = "done" /\ TopLevelErrors(c) # {}) =>
                 /\ Len(c.result.errors) = 1
                 /\ c.result.pagesBuilt = 0
                 /\ ~Did(c, "buildPage")
                 /\ ~Did(c, "render")
                 /\ ~Did(c, "cleanupServerBundle")
                 /\ c.written = {}
                 /\ c.unlinkFailed = {}

\* C29 witness: the last step before the page loop failed (the server
\* bundle did not compile) after two pages had been discovered.
C29_Witness ==
    \E s \in Slots :
        /\ call[s].pc = "done"
        /\ Len(call[s].yamlFiles) = 2
        /\ call[s].serverStats = "errors"
        /\ Did(call[s], "buildFinally")
        /\ TopLevelErrors(call[s]) = {1}

\* What the cleanup must leave alone: written pages, the client bundle with
\* its stylesheets, copied assets and the copied favicon.
Kept(f) == {p \in DOMAIN f : f[p].kind \in {"html", "client", "asset"}}

\* C30: a step of the server-bundle cleanup removes only paths of the
\* Server Bundle Asset List and leaves every written page, the client
\* bundle, the stylesheets and the copied assets and favicon as they were; a
\* failing unlink leaves the error list and pagesBuilt as they were and the
\* loop goes on to the remaining listed files, so at its end every listed
\* file is either gone or is one whose unlink failed.
C30_CleanupTouchesOnlyServerAssets ==
    [][\A s \in Slots :
          LET c == call[s]
              d == call'[s]
          IN c.pc = "cleanupServerBundle" =>
               /\ (DOMAIN fs) \ (DOMAIN fs') \subseteq Range(serverBundleAssets)
               /\ DOMAIN fs' \subseteq DOMAIN fs
               /\ \A p \in Kept(fs) : p \in DOMAIN fs' /\ fs'[p] = fs[p]
               /\ d.result.errors = c.result.errors
               /\ d.result.warnings = c.result.warnings
               /\ d.result.pagesBuilt = c.result.pagesBuilt
               /\ c.k < Len(c.serverAssets) =>
                     d.pc = "cleanupServerBundle" /\ d.k = c.k + 1
               /\ d.pc = "done" =>
                     \A p \in Range(serverBundleAssets) :
                         p \notin DOMAIN fs' \/ p \in d.unlinkFailed]_vars

\* C30 witness: the unlink of the first listed file failed, the second
\* listed file was removed all the same, and the build returned two built
\* pages, no error, with pages, client bundle and copied asset in place.
C30_Witness ==
    \E s \in Slots :
        LET c == call[s]
        IN /\ c.pc = "done"
           /\ serverBundleAssets = <<resolveOutput(ServerJs), resolveOutput(ServerJsMap)>>
           /\ c.unlinkFailed = {resolveOutput(ServerJs)}
           /\ resolveOutput(ServerJs) \in DOMAIN fs
           /\ resolveOutput(ServerJsMap) \notin DOMAIN fs
           /\ c.result.errors = <<>>
           /\ c.result.pagesBuilt = 2
           /\ Cardinality(HtmlFiles) = 2
           /\ resolveOutput(ClientJs) \in DOMAIN fs
           /\ resolveOutput(StylesCss) \in DOMAIN fs
           /\ \E p \in DOMAIN fs : fs[p].kind = "asset"

====
